---------------------------- MODULE Spec2Model ----------------------------
(* Model of the tool-call execution engine of Gemini-Coder-CLI:            *)
(*   - the action dispatcher of cliagent/main.py,                          *)
(*   - the command handlers of cliagent/command_executor.py,               *)
(*   - the process supervisor of cliagent/process_manager.py.              *)
(* Text is modelled as sequences of one-character strings, so that the     *)
(* string operations of the code (strip, startswith, splitlines, lower,    *)
(* substring search, int()) are computed and not assumed.                  *)
EXTENDS Integers, Sequences, FiniteSets, TLC

VARIABLES
    running_processes, \* config.running_processes: records in insertion order
    threads,           \* reader threads (enqueue_output), by Popen identity
    now,               \* time.time(), in seconds
    spawned,           \* number of Popen objects created so far
    pushed,            \* number of output events queued so far
    io,                \* what the handler that ran last did to children:
                       \* <<"signal", identity, name>>, <<"stdin", identity, text>>
    fg,                \* the foreground child of os.system
    cwd,               \* config.current_working_directory
    hpc,               \* position of the control thread inside a handler
    ret,               \* value returned by the handler that ran last
    report,            \* facts of the last update_and_get_running_processes_info
    pc,                \* position of the control loop of main()
    actions,           \* the batch extracted from the generator's response
    idx,               \* index of the action being dispatched (1-based)
    all_results,       \* main(): all_results
    invoked,           \* handler invocations of the current batch
    llm_response_text  \* main(): the generator's response, where it is given as text

vars == <<running_processes, threads, now, spawned, pushed, io, fg, cwd, hpc, ret, report, pc, actions, idx,
          all_results, invoked, llm_response_text>>

supVars == <<running_processes, threads, now, spawned, pushed, io, fg, cwd, hpc, ret, report>>

loopVars == <<pc, actions, idx, all_results, invoked, llm_response_text>>

(***************************************************************************)
(* Bounds of the model.                                                    *)
(***************************************************************************)
MaxEvents == 3
MaxPidLife == 1
MaxSpawnsLife == 2
MaxTime == 122
MaxBatch == 2

(***************************************************************************)
(* Python values.                                                          *)
(***************************************************************************)
\* None where the code holds a number (an exit status, a timestamp)
None == -1000

\* None where the code holds a text (an absent argument)
NoText == <<"<None>">>

(***************************************************************************)
(* Text.                                                                   *)
(***************************************************************************)
UpperCase == <<"A","B","C","D","E","F","G","H","I","J","K","L","M",
               "N","O","P","Q","R","S","T","U","V","W","X","Y","Z">>

LowerCase == <<"a","b","c","d","e","f","g","h","i","j","k","l","m",
               "n","o","p","q","r","s","t","u","v","w","x","y","z">>

LowerChar(c) ==
    IF \E i \in 1..26 : UpperCase[i] = c
    THEN LowerCase[CHOOSE i \in 1..26 : UpperCase[i] = c]
    ELSE c

\* str.lower()
Lower(s) == [i \in 1..Len(s) |-> LowerChar(s[i])]

IsSpace(c) == c \in {" ", "\n", "\t"}

RECURSIVE LStrip(_)
LStrip(s) == IF s # <<>> /\ IsSpace(Head(s)) THEN LStrip(Tail(s)) ELSE s

RECURSIVE RStrip(_)
RStrip(s) ==
    IF s # <<>> /\ IsSpace(s[Len(s)])
    THEN RStrip(SubSeq(s, 1, Len(s) - 1))
    ELSE s

\* str.strip()
Strip(s) == RStrip(LStrip(s))

\* str.startswith(prefix)
StartsWith(s, prefix) ==
    /\ Len(s) >= Len(prefix)
    /\ SubSeq(s, 1, Len(prefix)) = prefix

\* str.endswith(suffix)
EndsWith(s, suffix) ==
    /\ Len(s) >= Len(suffix)
    /\ SubSeq(s, Len(s) - Len(suffix) + 1, Len(s)) = suffix

\* the "in" operator on strings: sub occurs in s
Contains(s, sub) ==
    \E i \in 1..(Len(s) - Len(sub) + 1) : SubSeq(s, i, i + Len(sub) - 1) = sub

\* str.splitlines(), for the line break "\n": a trailing break adds no line
RECURSIVE SplitFrom(_, _)
SplitFrom(s, cur) ==
    IF s = <<>> THEN (IF cur = <<>> THEN <<>> ELSE <<cur>>)
    ELSE IF Head(s) = "\n" THEN <<cur>> \o SplitFrom(Tail(s), <<>>)
    ELSE SplitFrom(Tail(s), Append(cur, Head(s)))

SplitLines(s) == SplitFrom(s, <<>>)

Digits == <<"0","1","2","3","4","5","6","7","8","9">>

IsDigit(c) == \E i \in 1..10 : Digits[i] = c

DigitVal(c) == (CHOOSE i \in 1..10 : Digits[i] = c) - 1

RECURSIVE IntOf(_, _)
IntOf(s, acc) ==
    IF s = <<>> THEN acc ELSE IntOf(Tail(s), 10 * acc + DigitVal(Head(s)))

\* int(text): None stands for the ValueError / TypeError of the code
ParseInt(s) ==
    IF s # NoText /\ s # <<>> /\ \A i \in 1..Len(s) : IsDigit(s[i])
    THEN IntOf(s, 0)
    ELSE None

\* str(pid) for the pids of the model
PidText(p) == <<Digits[p + 1]>>

(***************************************************************************)
(* The process table: config.running_processes, a dict keyed by pid, kept  *)
(* as the sequence of its values in insertion order.                       *)
(***************************************************************************)
HasPid(table, pid) == \E i \in 1..Len(table) : table[i].pid = pid

IndexOf(table, pid) == CHOOSE i \in 1..Len(table) : table[i].pid = pid

GetRec(table, pid) == table[IndexOf(table, pid)]

\* running_processes[pid] = data: a present key keeps its place
PutRec(table, data) ==
    IF HasPid(table, data.pid)
    THEN [table EXCEPT ![IndexOf(table, data.pid)] = data]
    ELSE Append(table, data)

\* del running_processes[pid]
DelRec(table, pid) ==
    LET i == IndexOf(table, pid)
    IN  SubSeq(table, 1, i - 1) \o SubSeq(table, i + 1, Len(table))

RecPids(table) == {table[i].pid : i \in 1..Len(table)}

(***************************************************************************)
(* subprocess.Popen: exit is the status the operating system holds for the *)
(* child (None while it runs), returncode the status Popen has collected,  *)
(* sigkilled whether SIGKILL has been sent to it.                          *)
(***************************************************************************)
NewPopen(id) ==
    [id |-> id, exit |-> None, returncode |-> None, sigkilled |-> FALSE]

\* variant of poll(): the status of the child is not looked up
PollNotCollected(process) == process

\* process.poll(): collects the status once the child has exited
Poll(process) ==
    IF process.returncode # None THEN process
    ELSE [process EXCEPT !.returncode = process.exit]

\* running_processes[pid] = {...} of handle_run_command.  start_time, read
\* only for the "Running for Ns" text of the report, is left out;
\* completed, exit_code and completion_time are the keys the code adds
\* later and reads with .get(key, default).
NewRecord(pid, id, command_string, cid) ==
    [pid |-> pid,
     process |-> NewPopen(id),
     command |-> command_string,
     output_lines |-> <<>>,
     cid |-> cid,
     expecting_input |-> FALSE,
     output_queue |-> <<>>,
     completed |-> FALSE,
     exit_code |-> None,
     completion_time |-> None]

(***************************************************************************)
(* update_specific_process_output                                          *)
(***************************************************************************)
OutputCap == 10

PromptKeywords ==
    { <<"?", " ">>,
      <<"y", "/", "n">>,
      <<"(", "y", "/", "n", ")">>,
      <<"s", "e", "l", "e", "c", "t">>,
      <<"c", "h", "o", "o", "s", "e">>,
      <<"p", "a", "s", "s", "w", "o", "r", "d">>,
      <<"e", "n", "t", "e", "r">>,
      <<"c", "o", "n", "t", "i", "n", "u", "e">> }

\* any(prompt in lower_line for prompt in [...])
IsPrompt(output_line) ==
    \E kw \in PromptKeywords : Contains(Lower(output_line), kw)

\* f"[STDOUT] {output_line}" / f"[STDERR] {output_line}"
Tagged(stream, output_line) ==
    [tag |-> IF stream = "stdout" THEN "[STDOUT]" ELSE "[STDERR]",
     text |-> output_line]

RECURSIVE NonEmpty(_)
NonEmpty(lines) ==
    IF lines = <<>> THEN <<>>
    ELSE IF Head(lines) = <<>> THEN NonEmpty(Tail(lines))
    ELSE <<Head(lines)>> \o NonEmpty(Tail(lines))

\* the lines one queued event adds to output_lines
EventLines(event) ==
    LET kept == NonEmpty(SplitLines(event[2]))
    IN  [i \in 1..Len(kept) |-> Tagged(event[1], kept[i])]

RECURSIVE QueueLines(_)
QueueLines(queue) ==
    IF queue = <<>> THEN <<>>
    ELSE EventLines(Head(queue)) \o QueueLines(Tail(queue))

\* variant of line 108 without "if stream == "stdout"": any stream's line
QueueHasPromptAnyStream(queue) ==
    \E i \in 1..Len(queue) :
        \E l \in 1..Len(NonEmpty(SplitLines(queue[i][2]))) :
            IsPrompt(NonEmpty(SplitLines(queue[i][2]))[l])

\* a stdout line of the queue matches a prompt keyword
QueueHasPrompt(queue) ==
    \E i \in 1..Len(queue) :
        /\ queue[i][1] = "stdout"
        /\ \E l \in 1..Len(NonEmpty(SplitLines(queue[i][2]))) :
               IsPrompt(NonEmpty(SplitLines(queue[i][2]))[l])

\* variant of line 132: the first ten lines are kept
FirstLines(lines) ==
    IF Len(lines) <= OutputCap THEN lines ELSE SubSeq(lines, 1, OutputCap)

\* output_lines[-10:]
LastLines(lines) ==
    IF Len(lines) <= OutputCap THEN lines
    ELSE SubSeq(lines, Len(lines) - OutputCap + 1, Len(lines))

\* variant of lines 95-99: the status is polled and not recorded
PollOnly(data) == [data EXCEPT !.process = Poll(data.process)]

\* status = process.poll(); if status is not None: completed, exit_code
MarkCompleted(data) ==
    LET process == Poll(data.process)
    IN  IF process.returncode # None
        THEN [data EXCEPT !.process = process,
                          !.completed = TRUE,
                          !.exit_code = process.returncode]
        ELSE [data EXCEPT !.process = process]

\* the body of update_specific_process_output, on the record of pid
Drain(data) ==
    LET polled == MarkCompleted(data)
    IN  [polled EXCEPT
            !.output_lines = LastLines(data.output_lines \o QueueLines(data.output_queue)),
            !.expecting_input = data.expecting_input \/ QueueHasPrompt(data.output_queue),
            !.output_queue = <<>>]

update_specific_process_output(table, pid) ==
    IF HasPid(table, pid) THEN PutRec(table, Drain(GetRec(table, pid))) ELSE table

(***************************************************************************)
(* find_process_by_pid_or_cid: the pid of the record found, 0 for None.    *)
(***************************************************************************)
WaitingPids(table) ==
    {table[i].pid : i \in {j \in 1..Len(table) : table[j].expecting_input}}

FirstWithCid(table, cid) ==
    LET hits == {i \in 1..Len(table) : table[i].cid = cid}
    IN  IF hits = {} THEN 0
        ELSE table[CHOOSE i \in hits : \A j \in hits : i <= j].pid

\* variant of lines 162-168: the default is the only waiting process, however
\* many processes there are
FindAnyWaiting(table, pid_or_cid) ==
    IF pid_or_cid = NoText \/ pid_or_cid = <<>>
    THEN IF Cardinality(WaitingPids(table)) = 1
         THEN CHOOSE p \in WaitingPids(table) : TRUE
         ELSE 0
    ELSE IF ParseInt(pid_or_cid) # None /\ HasPid(table, ParseInt(pid_or_cid))
    THEN ParseInt(pid_or_cid)
    ELSE IF FirstWithCid(table, pid_or_cid) # 0
    THEN FirstWithCid(table, pid_or_cid)
    ELSE IF Cardinality(WaitingPids(table)) = 1
    THEN CHOOSE p \in WaitingPids(table) : TRUE
    ELSE 0

find_process_by_pid_or_cid(table, pid_or_cid) ==
    IF pid_or_cid = NoText \/ pid_or_cid = <<>>
    THEN IF Cardinality(WaitingPids(table)) = 1
         THEN CHOOSE p \in WaitingPids(table) : TRUE
         ELSE 0
    ELSE IF ParseInt(pid_or_cid) # None /\ HasPid(table, ParseInt(pid_or_cid))
    THEN ParseInt(pid_or_cid)
    ELSE IF FirstWithCid(table, pid_or_cid) # 0
    THEN FirstWithCid(table, pid_or_cid)
    ELSE IF Len(table) = 1 /\ table[1].expecting_input
    THEN table[1].pid
    ELSE 0


\* args.get(key, default)
ArgGet(args, key, default) == IF key \in DOMAIN args THEN args[key] ELSE default

\* variant without strip(): command_string.startswith("cd ")
IsCdCommandUnstripped(command_string) == StartsWith(command_string, <<"c", "d", " ">>)

\* command_string.strip().startswith("cd ")
IsCdCommand(command_string) == StartsWith(Strip(command_string), <<"c", "d", " ">>)

\* command_string.strip()[3:].strip()
CdTarget(command_string) ==
    Strip(SubSeq(Strip(command_string), 4, Len(Strip(command_string))))

(***************************************************************************)
(* normalize_action_object (json_parser.py).  An action object is a record *)
(* with the fields action (a name) and args (a dict: a function on its     *)
(* keys); args_is_dict says whether "args" is present and a dict.          *)
(***************************************************************************)
ActionMap ==
    [create_directory |-> "create_folder", mkdir |-> "create_folder",
     make_directory |-> "create_folder", make_folder |-> "create_folder",
     make_dir |-> "create_folder", create_dir |-> "create_folder",
     delete_directory |-> "delete_folder", rmdir |-> "delete_folder",
     remove_directory |-> "delete_folder", remove_folder |-> "delete_folder",
     rm_dir |-> "delete_folder", rm_folder |-> "delete_folder",
     write_file |-> "create_file", make_file |-> "create_file",
     remove_file |-> "delete_file", rm_file |-> "delete_file",
     rm |-> "delete_file",
     cd |-> "change_directory", chdir |-> "change_directory",
     ls |-> "list_directory", dir |-> "list_directory",
     list_dir |-> "list_directory",
     execute |-> "run_command", exec |-> "run_command",
     run |-> "run_command", shell |-> "run_command",
     cat |-> "read_file", view_file |-> "read_file", open_file |-> "read_file",
     modify_file |-> "update_file", edit_file |-> "update_file",
     input_to_process |-> "send_input_to_process",
     process_input |-> "send_input_to_process",
     send_to_process |-> "send_input_to_process",
     terminate_process |-> "kill_process", stop_process |-> "kill_process",
     end_process |-> "kill_process"]

DirPathKeys ==
    <<"path", "dir_path", "directory_path", "folder_path", "dirname", "dir",
      "folder", "directory">>

\* parameter_mappings[action]: <<canonical key, accepted keys>>, in order
ParameterMappings(action) ==
    CASE action = "create_folder" -> << <<"path", DirPathKeys>> >>
      [] action = "create_file" ->
            << <<"path", <<"path", "file_path", "filepath", "filename", "file",
                           "destination", "dest">> >>,
               <<"content", <<"content", "file_content", "text", "data", "source",
                              "code", "body", "contents">> >> >>
      [] action = "read_file" ->
            << <<"path", <<"path", "file_path", "filepath", "filename", "file",
                           "source", "src">> >> >>
      [] action = "update_file" ->
            << <<"path", <<"path", "file_path", "filepath", "filename", "file",
                           "target">> >>,
               <<"content", <<"content", "file_content", "text", "data",
                              "new_content", "code", "body", "contents">> >>,
               <<"mode", <<"mode", "update_mode", "edit_mode", "method",
                           "operation">> >>,
               <<"line_number", <<"line_number", "line", "line_num", "at_line",
                                  "lineno">> >>,
               <<"start_line", <<"start_line", "start", "from_line", "begin_line",
                                 "first_line">> >>,
               <<"end_line", <<"end_line", "end", "to_line", "last_line">> >> >>
      [] action = "delete_file" ->
            << <<"path", <<"path", "file_path", "filepath", "filename", "file",
                           "target">> >> >>
      [] action = "delete_folder" -> << <<"path", Append(DirPathKeys, "target")>> >>
      [] action = "list_directory" -> << <<"path", DirPathKeys>> >>
      [] action = "change_directory" ->
            << <<"path", DirPathKeys \o <<"cd_path", "to", "destination">> >> >>
      [] action = "run_command" ->
            << <<"command_string", <<"command_string", "command", "cmd",
                                     "shell_command", "exec", "execute", "run">> >>,
               <<"cid", <<"cid", "command_id", "id", "identifier">> >> >>
      [] action = "send_input_to_process" ->
            << <<"pid_or_cid", <<"pid_or_cid", "pid", "cid", "process_id",
                                 "command_id", "id", "identifier", "process">> >>,
               <<"input_data", <<"input_data", "input", "data", "text", "stdin",
                                 "command_input">> >> >>
      [] action = "kill_process" ->
            << <<"pid_or_cid", <<"pid_or_cid", "pid", "cid", "process_id",
                                 "command_id", "id", "identifier", "process">> >> >>
      [] OTHER -> <<>>

\* args[key] = value
ArgSet(args, key, value) ==
    [k \in (DOMAIN args) \cup {key} |-> IF k = key THEN value ELSE args[k]]

\* variant of line 357 without "canonical_param not in args"
RECURSIVE CopyVariantOverwrite(_, _, _)
CopyVariantOverwrite(args, canonical_param, variants) ==
    IF variants = <<>> THEN args
    ELSE LET variant == Head(variants)
         IN  IF variant \in DOMAIN args /\ variant # canonical_param
             THEN CopyVariantOverwrite(ArgSet(args, canonical_param, args[variant]),
                                       canonical_param, Tail(variants))
             ELSE CopyVariantOverwrite(args, canonical_param, Tail(variants))

\* the inner loop: "for variant in variants"
RECURSIVE CopyVariant(_, _, _)
CopyVariant(args, canonical_param, variants) ==
    IF variants = <<>> THEN args
    ELSE LET variant == Head(variants)
         IN  IF /\ variant \in DOMAIN args
                /\ variant # canonical_param
                /\ canonical_param \notin DOMAIN args
             THEN CopyVariant(ArgSet(args, canonical_param, args[variant]),
                              canonical_param, Tail(variants))
             ELSE CopyVariant(args, canonical_param, Tail(variants))

\* the outer loop: "for canonical_param, variants in param_map.items()"
RECURSIVE NormalizeParams(_, _)
NormalizeParams(args, param_map) ==
    IF param_map = <<>> THEN args
    ELSE NormalizeParams(CopyVariant(args, Head(param_map)[1], Head(param_map)[2]),
                         Tail(param_map))

EmptyArgs == [k \in {} |-> <<>>]

\* lines 285-292: run_command "cd x" becomes change_directory
RewriteCd(action_obj) ==
    IF /\ action_obj.action = "run_command"
       /\ action_obj.args_is_dict
       /\ IsCdCommand(ArgGet(action_obj.args, "command_string", <<>>))
    THEN [action_obj EXCEPT
             !.action = "change_directory",
             !.args = [path |-> CdTarget(ArgGet(action_obj.args, "command_string", <<>>))]]
    ELSE action_obj

\* variant of lines 295-298: a name that is not in the map is replaced
MapNameOrDefault(action, action_obj) ==
    IF action \in DOMAIN ActionMap
    THEN [action_obj EXCEPT !.action = ActionMap[action]]
    ELSE [action_obj EXCEPT !.action = "unknown_action"]

\* lines 295-298: the name looked up is the one the object came with
MapName(action, action_obj) ==
    IF action \in DOMAIN ActionMap
    THEN [action_obj EXCEPT !.action = ActionMap[action]]
    ELSE action_obj

\* lines 371-372
DefaultInteractive(action_name, args) ==
    IF action_name = "run_command" /\ "interactive" \notin DOMAIN args
    THEN ArgSet(args, "interactive", TRUE)
    ELSE args

normalize_action_object(action_obj) ==
    LET named == MapName(action_obj.action, RewriteCd(action_obj))
        args == IF named.args_is_dict THEN named.args ELSE EmptyArgs
        mapped == NormalizeParams(args, ParameterMappings(named.action))
    IN  [named EXCEPT !.args = DefaultInteractive(named.action, mapped),
                      !.args_is_dict = TRUE]

(***************************************************************************)
(* extract_json_from_response (json_parser.py:4-220).  A JSON value is     *)
(* [t |-> "str", v |-> text], [t |-> "list", v |-> values] or              *)
(* [t |-> "dict", v |-> function on the keys].  json.loads is modelled for *)
(* objects, arrays and strings without escapes; any other text is a        *)
(* JSONDecodeError.                                                        *)
(***************************************************************************)
\* the grave accent of the markdown fence is written "~" in the texts of the
\* model
Fence == <<"~", "~", "~">>

FenceJson == Fence \o <<"j", "s", "o", "n">>

\* the str of a text of the model
RECURSIVE Join(_)
Join(chars) == IF chars = <<>> THEN "" ELSE chars[1] \o Join(Tail(chars))

\* s.find(sub, start), 1-based: 0 when sub does not occur from start on
Find(s, sub, start) ==
    LET hits == {i \in start..(Len(s) - Len(sub) + 1) :
                    SubSeq(s, i, i + Len(sub) - 1) = sub}
    IN  IF hits = {} THEN 0 ELSE CHOOSE i \in hits : \A j \in hits : i <= j

\* \s* from index i on: the index of the first character that is no space
RECURSIVE SkipSpace(_, _)
SkipSpace(s, i) == IF i <= Len(s) /\ IsSpace(s[i]) THEN SkipSpace(s, i + 1) ELSE i

JsonError == [ok |-> FALSE, val |-> <<>>, at |-> 0]

JsonOk(t, v, at) == [ok |-> TRUE, val |-> [t |-> t, v |-> v], at |-> at]

\* a string, from its opening quote at i; a line break inside is an error
ParseString(s, i) ==
    LET close == Find(s, <<"\"">>, i + 1)
    IN  IF close = 0 \/ Contains(SubSeq(s, i + 1, close - 1), <<"\n">>)
        THEN JsonError
        ELSE JsonOk("str", SubSeq(s, i + 1, close - 1), close + 1)

RECURSIVE ParseValue(_, _)
RECURSIVE ParseMembers(_, _, _)
RECURSIVE ParseElements(_, _, _)
\* the value that starts at index i; at is the index after it
ParseValue(s, i) ==
    IF i > Len(s) THEN JsonError
    ELSE IF s[i] = "\"" THEN ParseString(s, i)
    ELSE IF s[i] = "{"
    THEN LET j == SkipSpace(s, i + 1)
         IN  IF j <= Len(s) /\ s[j] = "}" THEN JsonOk("dict", EmptyArgs, j + 1)
             ELSE ParseMembers(s, j, EmptyArgs)
    ELSE IF s[i] = "["
    THEN LET j == SkipSpace(s, i + 1)
         IN  IF j <= Len(s) /\ s[j] = "]" THEN JsonOk("list", <<>>, j + 1)
             ELSE ParseElements(s, j, <<>>)
    ELSE JsonError

\* the members of an object from the key at index i; a key met again
\* replaces the earlier one
ParseMembers(s, i, members) ==
    IF i > Len(s) \/ s[i] # "\"" THEN JsonError
    ELSE LET key == ParseString(s, i)
             colon == SkipSpace(s, key.at)
         IN  IF ~key.ok \/ colon > Len(s) \/ s[colon] # ":" THEN JsonError
             ELSE LET value == ParseValue(s, SkipSpace(s, colon + 1))
                      next == SkipSpace(s, value.at)
                      added == ArgSet(members, Join(key.val.v), value.val)
                  IN  IF ~value.ok \/ next > Len(s) THEN JsonError
                      ELSE IF s[next] = "}" THEN JsonOk("dict", added, next + 1)
                      ELSE IF s[next] = ","
                      THEN ParseMembers(s, SkipSpace(s, next + 1), added)
                      ELSE JsonError

\* the elements of an array from the value at index i
ParseElements(s, i, elements) ==
    LET value == ParseValue(s, i)
        next == SkipSpace(s, value.at)
    IN  IF ~value.ok \/ next > Len(s) THEN JsonError
        ELSE IF s[next] = "]" THEN JsonOk("list", Append(elements, value.val), next + 1)
        ELSE IF s[next] = ","
        THEN ParseElements(s, SkipSpace(s, next + 1), Append(elements, value.val))
        ELSE JsonError

\* json.loads(s): one value, with nothing but space around it
json_loads(s) ==
    LET value == ParseValue(s, SkipSpace(s, 1))
    IN  IF value.ok /\ SkipSpace(s, value.at) = Len(s) + 1 THEN value ELSE JsonError

\* re.search(r"\[\s*\{\s*\"action\"", text): the index of its "[", 0 for None
ArrayMatch(text) ==
    LET hits == {i \in 1..Len(text) :
                    /\ text[i] = "["
                    /\ LET brace == SkipSpace(text, i + 1)
                           key == SkipSpace(text, brace + 1)
                       IN  /\ brace <= Len(text)
                           /\ text[brace] = "{"
                           /\ StartsWith(SubSeq(text, key, Len(text)),
                                         <<"\"", "a", "c", "t", "i", "o", "n", "\"">>)}
    IN  IF hits = {} THEN 0 ELSE CHOOSE i \in hits : \A j \in hits : i <= j

\* the loop of lines 18-23 (and 161-166) from end_index on: the index of the
\* "]" that brings bracket_count to 0, 0 when none does
RECURSIVE ScanBrackets(_, _, _)
ScanBrackets(text, end_index, bracket_count) ==
    IF bracket_count = 0 THEN end_index - 1
    ELSE IF end_index > Len(text) THEN 0
    ELSE ScanBrackets(text, end_index + 1,
                      IF text[end_index] = "[" THEN bracket_count + 1
                      ELSE IF text[end_index] = "]" THEN bracket_count - 1
                      ELSE bracket_count)

\* re.search(r"~~~json\s*([\s\S]*?)\s*~~~", text).group(1), NoText for None
FenceBody(text) ==
    LET open == Find(text, FenceJson, 1)
        first == SkipSpace(text, open + Len(FenceJson))
        close == Find(text, Fence, first)
    IN  IF open = 0 \/ close = 0 THEN NoText
        ELSE RStrip(SubSeq(text, first, close - 1))

\* re.search(r'}\s*{', s)
HasAdjacent(s) ==
    \E i \in 1..Len(s) :
        /\ s[i] = "}"
        /\ SkipSpace(s, i + 1) <= Len(s)
        /\ s[SkipSpace(s, i + 1)] = "{"

\* re.sub(r'}\s*{', '},{', s), from index i on
RECURSIVE SubAdjacent(_, _)
SubAdjacent(s, i) ==
    IF i > Len(s) THEN <<>>
    ELSE IF /\ s[i] = "}"
            /\ SkipSpace(s, i + 1) <= Len(s)
            /\ s[SkipSpace(s, i + 1)] = "{"
    THEN <<"}", ",", "{">> \o SubAdjacent(s, SkipSpace(s, i + 1) + 1)
    ELSE <<s[i]>> \o SubAdjacent(s, i + 1)

\* '[' + re.sub(r'}\s*{', '},{', s) + ']'
WrapAdjacent(s) == <<"[">> \o SubAdjacent(s, 1) \o <<"]">>

\* normalize_action_object does not return None (lines 224-230)
IsActionDict(value) ==
    /\ value.t = "dict"
    /\ "action" \in DOMAIN value.v
    /\ value.v["action"].t = "str"

\* the action object of a parsed dict, as the model of the normalizer takes it
ActionObject(value) ==
    LET has_args == "args" \in DOMAIN value.v /\ value.v["args"].t = "dict"
    IN  [action |-> Join(value.v["action"].v),
         args |-> IF has_args
                  THEN [k \in DOMAIN value.v["args"].v |-> value.v["args"].v[k].v]
                  ELSE EmptyArgs,
         args_is_dict |-> has_args]

\* what extract_json_from_response returns: None, or a list of actions
ReturnNone == [raised |-> FALSE, none |-> TRUE, actions |-> <<>>]

\* the loops "for action_item in json_obj": the items that are dicts with a
\* string "action", normalized, in their order
ReturnActions(items) ==
    LET kept == SelectSeq(items, IsActionDict)
    IN  [raised |-> FALSE, none |-> FALSE,
         actions |-> [i \in 1..Len(kept) |-> normalize_action_object(ActionObject(kept[i]))]]

\* lines 76-93: the list inside a wrapper object
Unwrapped(value) ==
    LET holds(key) == key \in DOMAIN value.v /\ value.v[key].t = "list"
    IN  IF value.t # "dict" THEN value
        ELSE IF /\ "action" \in DOMAIN value.v
                /\ value.v["action"] = [t |-> "str", v |-> <<"m","u","l","t","i","p","l","e",
                                                             "_","a","c","t","i","o","n","s">>]
                /\ "actions" \in DOMAIN value.v
        THEN (IF holds("actions") THEN value.v["actions"] ELSE value)
        ELSE IF holds("action_items") THEN value.v["action_items"]
        ELSE IF holds("commands") THEN value.v["commands"]
        ELSE value

\* lines 99-121 (and 191-208): a list, one action object, or neither
ReturnValue(value) ==
    IF value.t = "list" THEN ReturnActions(value.v)
    ELSE IF IsActionDict(value) THEN ReturnActions(<<value>>)
    ELSE ReturnNone

\* lines 8-41: the array the first regex finds; found says whether the
\* function returns here
ArrayPath(text) ==
    LET start_index == ArrayMatch(text)
        last == ScanBrackets(text, start_index + 1, 1)
        loaded == json_loads(SubSeq(text, start_index, last))
    IN  IF start_index # 0 /\ last # 0 /\ loaded.ok
        THEN [found |-> TRUE, result |-> ReturnActions(loaded.val.v)]
        ELSE [found |-> FALSE, result |-> ReturnNone]

\* lines 44-149: the json_str of the markdown block
FencedPath(json_str) ==
    LET direct == json_loads(json_str)
        fixed == IF StartsWith(Strip(json_str), <<"{">>) /\ HasAdjacent(json_str)
                 THEN WrapAdjacent(json_str)
                 ELSE json_str
        loaded == json_loads(fixed)
        repaired == json_loads(WrapAdjacent(fixed))
    IN  IF StartsWith(Strip(json_str), <<"[">>) /\ direct.ok
        THEN ReturnActions(direct.val.v)
        ELSE IF loaded.ok THEN ReturnValue(Unwrapped(loaded.val))
        ELSE IF Contains(fixed, <<"}", "{">>) /\ repaired.ok
        THEN ReturnActions(repaired.val.v)
        ELSE ReturnNone

\* lines 152-214: the whole response is the JSON text
RawPath(text) ==
    LET start_index == Find(text, <<"[">>, 1)
        last == ScanBrackets(text, start_index + 1, 1)
        array == json_loads(SubSeq(text, start_index, last))
        fixed == IF StartsWith(Strip(text), <<"{">>) /\ HasAdjacent(text)
                 THEN WrapAdjacent(text)
                 ELSE text
        loaded == json_loads(Strip(fixed))
    IN  IF StartsWith(Strip(text), <<"[">>) /\ last # 0 /\ array.ok
        THEN ReturnActions(array.val.v)
        ELSE IF loaded.ok THEN ReturnValue(loaded.val)
        ELSE ReturnNone

\* variant without the try of lines 6 and 216-218: the TypeError of
\* re.search on a response that is no str reaches the caller
ExtractUncaught(text) ==
    IF text = NoText THEN [raised |-> TRUE, none |-> TRUE, actions |-> <<>>]
    ELSE IF ArrayPath(text).found THEN ArrayPath(text).result
    ELSE IF FenceBody(text) # NoText THEN FencedPath(FenceBody(text))
    ELSE IF StartsWith(Strip(text), <<"{">>) \/ StartsWith(Strip(text), <<"[">>)
    THEN RawPath(text)
    ELSE ReturnNone

\* text is NoText when the response is no str
extract_json_from_response(text) ==
    IF text = NoText THEN ReturnNone
    ELSE IF ArrayPath(text).found THEN ArrayPath(text).result
    ELSE IF FenceBody(text) # NoText THEN FencedPath(FenceBody(text))
    ELSE IF StartsWith(Strip(text), <<"{">>) \/ StartsWith(Strip(text), <<"[">>)
    THEN RawPath(text)
    ELSE ReturnNone

(***************************************************************************)
(* Handlers of command_executor.py.  A handler constrains the supervisor's *)
(* variables only; its caller says what happens to the control loop.  hpc  *)
(* is the control thread's position inside the handler: the handlers that  *)
(* sleep (time.sleep(0.2)) or wait (os.system) are left and re-entered.    *)
(* ret, report and io are what the call returned and did; the caller takes *)
(* them (Return), after which they are dead.                               *)
(***************************************************************************)
At(where, pid) == [at |-> where, pid |-> pid]

ExistingDirs == { <<"f">>, <<"/">> }

\* handle_change_directory: the new working directory and the result
ChangeDirectory(path_str, dir) ==
    IF path_str = NoText \/ path_str = <<>>
    THEN [cwd |-> dir, result |-> "Error: 'path' argument is required"]
    ELSE IF path_str \in ExistingDirs
    THEN [cwd |-> path_str, result |-> "Success: directory changed"]
    ELSE [cwd |-> dir, result |-> "Error: directory not found"]

\* pids the operating system may give a new child: not the pid of a child
\* whose status has not been collected
IsFreePid(table, p) ==
    HasPid(table, p) => GetRec(table, p).process.returncode # None

Finish(result) ==
    /\ ret' = result
    /\ hpc' = At("done", 0)

\* handle_run_command up to its first wait
RunCommandBegin(args, pid, popen_ok) ==
    LET command_string == ArgGet(args, "command_string", NoText)
        cid == ArgGet(args, "cid", <<>>)
        interactive == ArgGet(args, "interactive", TRUE)
    IN
    /\ hpc.at = "idle"
    /\ IF command_string = NoText \/ command_string = <<>>
       THEN /\ Finish("Error: 'command_string' is required")
            /\ UNCHANGED <<running_processes, threads, spawned, fg, cwd>>
       ELSE IF IsCdCommand(command_string)
       THEN /\ cwd' = ChangeDirectory(CdTarget(command_string), cwd).cwd
            /\ Finish(ChangeDirectory(CdTarget(command_string), cwd).result)
            /\ UNCHANGED <<running_processes, threads, spawned, fg>>
       ELSE IF interactive
       THEN \* os.system(...): the control thread waits for the child to end
            /\ fg' = "running"
            /\ hpc' = At("os_system", 0)
            /\ UNCHANGED <<running_processes, threads, spawned, cwd, ret>>
       ELSE IF ~popen_ok
       THEN /\ Finish("Error running command")
            /\ UNCHANGED <<running_processes, threads, spawned, fg, cwd>>
       ELSE /\ IsFreePid(running_processes, pid)
            /\ spawned' = spawned + 1
            /\ threads' = Append(threads, [alive |-> TRUE, out_closed |-> FALSE,
                                           err_closed |-> FALSE])
            /\ running_processes' =
                   PutRec(running_processes,
                          NewRecord(pid, spawned + 1, command_string, cid))
            /\ hpc' = At("run_sleep", pid)
            /\ UNCHANGED <<fg, cwd, ret>>
    /\ io' = {}
    /\ UNCHANGED <<now, pushed, report>>

\* variant of line 107: output_queue.get(), which waits for an event
RunCommandFinishBlocking ==
    /\ hpc.at = "run_sleep"
    /\ GetRec(running_processes, hpc.pid).output_queue # <<>>
    /\ running_processes' = update_specific_process_output(running_processes, hpc.pid)
    /\ Finish("Success: command started")
    /\ UNCHANGED <<threads, now, spawned, pushed, io, fg, cwd, report>>

\* handle_run_command after time.sleep(0.2): the first drain, and the result
RunCommandFinish ==
    /\ hpc.at = "run_sleep"
    /\ running_processes' = update_specific_process_output(running_processes, hpc.pid)
    /\ Finish("Success: command started")
    /\ UNCHANGED <<threads, now, spawned, pushed, io, fg, cwd, report>>

\* os.system returns when the foreground child has ended
OsSystemReturn ==
    /\ hpc.at = "os_system"
    /\ fg = "exited"
    /\ fg' = "none"
    /\ Finish("Command completed")
    /\ UNCHANGED <<running_processes, threads, now, spawned, pushed, io, cwd, report>>

\* input_data, newline-terminated
WithNewline(input_data) ==
    IF EndsWith(input_data, <<"\n">>) THEN input_data ELSE Append(input_data, "\n")

\* variant of lines 105-121: with nothing found and no single waiting
\* process, the first process of the table is taken
ResolveForInputOrFirst(table, pid_or_cid) ==
    IF find_process_by_pid_or_cid(table, pid_or_cid) # 0
    THEN find_process_by_pid_or_cid(table, pid_or_cid)
    ELSE IF Cardinality(WaitingPids(table)) = 1
    THEN CHOOSE p \in WaitingPids(table) : TRUE
    ELSE IF table # <<>> THEN table[1].pid
    ELSE 0

\* the record handle_send_input_to_process resolves: 0 for none
ResolveForInput(table, pid_or_cid) ==
    IF find_process_by_pid_or_cid(table, pid_or_cid) # 0
    THEN find_process_by_pid_or_cid(table, pid_or_cid)
    ELSE IF Cardinality(WaitingPids(table)) = 1
    THEN CHOOSE p \in WaitingPids(table) : TRUE
    ELSE 0

\* variant of line 139: the flag is left as it is
KeepExpecting(data) == data

\* process_data["expecting_input"] = False
ClearExpecting(data) == [data EXCEPT !.expecting_input = FALSE]

\* handle_send_input_to_process up to time.sleep(0.2)
SendInputBegin(args, write_ok) ==
    LET pid_or_cid == ArgGet(args, "pid_or_cid", NoText)
        input_data == ArgGet(args, "input_data", NoText)
        pid == ResolveForInput(running_processes, pid_or_cid)
        data == GetRec(running_processes, pid)
        polled == [data EXCEPT !.process = Poll(data.process)]
    IN
    /\ hpc.at = "idle"
    /\ IF input_data = NoText
       THEN /\ Finish("Error: 'input_data' is required")
            /\ io' = {}
            /\ UNCHANGED running_processes
       ELSE IF pid = 0
       THEN /\ Finish("Error: process not found")
            /\ io' = {}
            /\ UNCHANGED running_processes
       ELSE IF polled.process.returncode # None
       THEN /\ running_processes' = PutRec(running_processes, polled)
            /\ io' = {}
            /\ Finish("Error: process has already terminated")
       ELSE IF ~write_ok
       THEN \* stdin.write / flush raises (the child closed its stdin)
            /\ Finish("Error sending input")
            /\ io' = {}
            /\ UNCHANGED running_processes
       ELSE /\ io' = {<<"stdin", data.process.id, WithNewline(input_data)>>}
            /\ running_processes' = PutRec(running_processes, ClearExpecting(polled))
            /\ hpc' = At("input_sleep", pid)
            /\ UNCHANGED ret
    /\ UNCHANGED <<threads, now, spawned, pushed, fg, cwd, report>>

\* handle_send_input_to_process after time.sleep(0.2)
SendInputFinish ==
    /\ hpc.at = "input_sleep"
    /\ running_processes' = update_specific_process_output(running_processes, hpc.pid)
    /\ Finish("Success: input sent")
    /\ UNCHANGED <<threads, now, spawned, pushed, io, fg, cwd, report>>

\* the status of a child ended by SIGKILL
KillCode == -9

\* handle_kill_process, after process.kill() and a second TimeoutExpired:
\* the early return of line 170
KillStuck(table, data) ==
    [table |-> PutRec(table, [data EXCEPT !.process.sigkilled = TRUE]),
     result |-> "Warning: might not have terminated after SIGKILL"]

\* handle_kill_process.  outcome says how the child answers the signals:
\* "term" it ends within the first wait, "kill" within the second, "stuck"
\* neither wait ends (subprocess.TimeoutExpired twice).
KillProcess(args, outcome) ==
    LET pid_or_cid == ArgGet(args, "pid_or_cid", NoText)
        pid == find_process_by_pid_or_cid(running_processes, pid_or_cid)
        data == GetRec(running_processes, pid)
        process == Poll(data.process)
        id == data.process.id
    IN
    /\ hpc.at = "idle"
    /\ IF pid = 0
       THEN /\ Finish("Error: process not found")
            /\ io' = {}
            /\ UNCHANGED running_processes
       ELSE IF process.returncode # None
       THEN \* terminate() and wait() of a child that has ended
            /\ running_processes' = DelRec(running_processes, pid)
            /\ io' = {}
            /\ Finish("Success: attempted to terminate")
       ELSE IF outcome = "term"
       THEN /\ io' = {<<"signal", id, <<"TERM">>>>}
            /\ running_processes' = DelRec(running_processes, pid)
            /\ Finish("Success: attempted to terminate")
       ELSE IF outcome = "kill"
       THEN /\ io' = {<<"signal", id, <<"TERM">>>>, <<"signal", id, <<"KILL">>>>}
            /\ running_processes' = DelRec(running_processes, pid)
            /\ Finish("Success: attempted to terminate")
       ELSE /\ io' = {<<"signal", id, <<"TERM">>>>, <<"signal", id, <<"KILL">>>>}
            /\ running_processes' = KillStuck(running_processes, data).table
            /\ Finish(KillStuck(running_processes, data).result)
    /\ UNCHANGED <<threads, now, spawned, pushed, fg, cwd, report>>

(***************************************************************************)
(* update_and_get_running_processes_info                                   *)
(***************************************************************************)
GracePeriod == 60

\* variant of line 40: data.get("exit_code", 0)
ReportEntryZero(data, status) ==
    [pid |-> data.pid,
     id |-> data.process.id,
     cid |-> data.cid,
     state |-> IF status # None THEN "completed"
               ELSE IF data.expecting_input THEN "waiting"
               ELSE "running",
     exit_code |-> IF status = None THEN None
                   ELSE IF data.exit_code # None THEN data.exit_code
                   ELSE 0,
     lines |-> data.output_lines]

\* the facts of one report line; status is process.poll() after the drain
ReportEntry(data, status) ==
    [pid |-> data.pid,
     id |-> data.process.id,
     cid |-> data.cid,
     state |-> IF status # None THEN "completed"
               ELSE IF data.expecting_input THEN "waiting"
               ELSE "running",
     exit_code |-> IF status = None THEN None
                   ELSE IF data.exit_code # None THEN data.exit_code
                   ELSE status,
     lines |-> data.output_lines]

\* variant of line 62: data.get("completion_time", 0), so that a record
\* without a completion time counts as completed long ago
ShouldReapDefaultZero(data, current_time) ==
    /\ data.completed
    /\ current_time - (IF data.completion_time = None THEN 0 ELSE data.completion_time)
           > GracePeriod

\* variant of the comparison of line 62: ">= 60" for "> 60"
ShouldReapAtGrace(data, current_time) ==
    /\ data.completed
    /\ data.completion_time # None
    /\ current_time - data.completion_time >= GracePeriod

\* a completed record is removed once its completion is older than the grace
ShouldReap(data, current_time) ==
    /\ data.completed
    /\ data.completion_time # None
    /\ current_time - data.completion_time > GracePeriod

\* not data.get("completion_time"): absent, or a zero timestamp
NoCompletionTime(data) == data.completion_time = None \/ data.completion_time = 0

\* the second loop, on one pid of completed_pids that is not removed
AfterReapLoop(data, current_time) ==
    IF ~ShouldReap(data, current_time) /\ NoCompletionTime(data)
    THEN [data EXCEPT !.completion_time = current_time]
    ELSE data

RECURSIVE KeepRecs(_, _, _)
KeepRecs(table, completed_idx, current_time) ==
    IF table = <<>> THEN <<>>
    ELSE LET n == Len(table)
             rest == KeepRecs(SubSeq(table, 1, n - 1), completed_idx, current_time)
         IN  IF n \notin completed_idx THEN Append(rest, table[n])
             ELSE IF ShouldReap(table[n], current_time) THEN rest
             ELSE Append(rest, AfterReapLoop(table[n], current_time))

\* the pipes of the reaped records are closed
ClosePipes(thr, ids) ==
    [i \in 1..Len(thr) |->
        IF i \in ids THEN [thr[i] EXCEPT !.out_closed = TRUE, !.err_closed = TRUE]
        ELSE thr[i]]

\* late: children that end between the drain's poll (line 95) and the
\* report's poll (line 28), with status code
RefreshAll(late, code) ==
    LET table == running_processes
        n == Len(table)
        drained == [i \in 1..n |-> Drain(table[i])]
        ended(i) == IF drained[i].process.sigkilled THEN KillCode ELSE code
        polled == [i \in 1..n |->
                     IF i \in late
                     THEN [drained[i] EXCEPT !.process.exit = ended(i),
                                             !.process.returncode = ended(i)]
                     ELSE drained[i]]
        status == [i \in 1..n |-> polled[i].process.returncode]
        completed_idx == {i \in 1..n : status[i] # None}
        reaped_ids == {polled[i].process.id :
                          i \in {j \in completed_idx : ShouldReap(polled[j], now)}}
    IN
    /\ hpc.at = "idle"
    /\ late \subseteq {i \in 1..n : drained[i].process.exit = None}
    /\ IF table = <<>>
       THEN /\ report' = <<>>
            /\ UNCHANGED <<running_processes, threads>>
       ELSE /\ report' = [i \in 1..n |-> ReportEntry(polled[i], status[i])]
            /\ running_processes' = KeepRecs(polled, completed_idx, now)
            /\ threads' = ClosePipes(threads, reaped_ids)
    /\ hpc' = At("refreshed", 0)
    /\ UNCHANGED <<now, spawned, pushed, io, fg, cwd, ret>>

(***************************************************************************)
(* The environment: children, reader threads, the clock.                   *)
(***************************************************************************)
ExitCodes == {0, 1}

\* a tracked child ends; one that was sent SIGKILL ends by it
ChildExit(pid, code) ==
    /\ HasPid(running_processes, pid)
    /\ LET data == GetRec(running_processes, pid)
       IN  /\ data.process.exit = None
           /\ running_processes' =
                  PutRec(running_processes,
                         [data EXCEPT !.process.exit =
                             IF data.process.sigkilled THEN KillCode ELSE code])
    /\ UNCHANGED <<threads, now, spawned, pushed, io, fg, cwd, hpc, ret, report>>

\* the foreground child of os.system ends
FgChildExit ==
    /\ fg = "running"
    /\ fg' = "exited"
    /\ UNCHANGED <<running_processes, threads, now, spawned, pushed, io, cwd,
                   hpc, ret, report>>

\* enqueue_output: output_queue.put((stream, data)) of the reader of pid
ReaderPush(pid, stream, chunk) ==
    /\ HasPid(running_processes, pid)
    /\ LET data == GetRec(running_processes, pid)
           thread == threads[data.process.id]
       IN  /\ thread.alive
           /\ IF stream = "stdout" THEN ~thread.out_closed ELSE ~thread.err_closed
           /\ chunk # <<>>
           /\ running_processes' =
                  PutRec(running_processes,
                         [data EXCEPT !.output_queue = Append(@, <<stream, chunk>>)])
    /\ pushed' = pushed + 1
    /\ UNCHANGED <<threads, now, spawned, io, fg, cwd, hpc, ret, report>>

\* enqueue_output: "if out.closed and err.closed: break"
ReaderExit(id) ==
    /\ id \in 1..Len(threads)
    /\ threads[id].alive
    /\ threads[id].out_closed /\ threads[id].err_closed
    /\ threads' = [threads EXCEPT ![id].alive = FALSE]
    /\ UNCHANGED <<running_processes, now, spawned, pushed, io, fg, cwd, hpc,
                   ret, report>>

TickSteps == {60, 61}

Tick(d) ==
    /\ now + d <= MaxTime
    /\ now' = now + d
    /\ UNCHANGED <<running_processes, threads, spawned, pushed, io, fg, cwd,
                   hpc, ret, report>>

\* the caller takes what the call returned
Return ==
    /\ hpc.at \in {"done", "refreshed"}
    /\ hpc' = At("idle", 0)
    /\ ret' = "none"
    /\ report' = <<>>
    /\ io' = {}
    /\ UNCHANGED <<running_processes, threads, now, spawned, pushed, fg, cwd>>

InitSup ==
    /\ running_processes = <<>>
    /\ threads = <<>>
    /\ now = 1
    /\ spawned = 0
    /\ pushed = 0
    /\ io = {}
    /\ fg = "none"
    /\ cwd = <<"/">>
    /\ hpc = At("idle", 0)
    /\ ret = "none"
    /\ report = <<>>

InitLoop ==
    /\ pc = "top"
    /\ actions = <<>>
    /\ idx = 0
    /\ all_results = <<>>
    /\ invoked = <<>>
    /\ llm_response_text = <<>>

Init == InitSup /\ InitLoop

(***************************************************************************)
(* The supervisor driven directly: the control thread calls the handlers   *)
(* and the refresh in any order, as the dispatcher and the loop may.       *)
(***************************************************************************)
(* Inputs of the model: arguments the dispatcher may hand to the handlers, *)
(* and output events a child may produce.                                  *)
(***************************************************************************)
CidS1 == <<"s", "1">>

\* "pid_or_cid" values: absent or empty, a pid, a correlation id, unknown
Identifiers == {<<>>, <<"1">>, <<"2">>, CidS1, <<"z">>}

PromptText == <<"C","o","n","t","i","n","u","e","?"," ","(","y","/","n",")">>

\* "a\n\nb\nc\nd": five lines, one of them empty
FiveLines == <<"a", "\n", "\n", "b", "\n", "c", "\n", "d">>

(***************************************************************************)
(* SpecLife: the lifecycle of a record.  The control thread calls          *)
(* run_command (in the background), kill_process and the refresh in any    *)
(* order, as the dispatcher and the loop may; the child ends when it       *)
(* likes; the clock advances.                                              *)
(***************************************************************************)
LifeRuns == {[command_string |-> <<"p">>, cid |-> CidS1, interactive |-> FALSE]}

LifeKills == {[pid_or_cid |-> i] : i \in {<<"1">>, CidS1, <<"z">>}}

LifeRunCommand ==
    /\ spawned < MaxSpawnsLife
    /\ \E args \in LifeRuns, pid \in 1..MaxPidLife, popen_ok \in BOOLEAN :
           RunCommandBegin(args, pid, popen_ok)
    /\ UNCHANGED loopVars

LifeRunCommandFinish == RunCommandFinish /\ UNCHANGED loopVars

LifeKillProcess ==
    /\ \E args \in LifeKills, outcome \in {"term", "kill", "stuck"} :
           KillProcess(args, outcome)
    /\ UNCHANGED loopVars

LifeRefreshAll ==
    /\ \E late \in SUBSET (1..Len(running_processes)), code \in ExitCodes :
           RefreshAll(late, code)
    /\ UNCHANGED loopVars

LifeReturn == Return /\ UNCHANGED loopVars

LifeChildExit ==
    /\ \E pid \in 1..MaxPidLife, code \in ExitCodes : ChildExit(pid, code)
    /\ UNCHANGED loopVars

LifeTick ==
    /\ \E d \in TickSteps : Tick(d)
    /\ UNCHANGED loopVars

NextLife ==
    \/ LifeRunCommand
    \/ LifeRunCommandFinish
    \/ LifeKillProcess
    \/ LifeRefreshAll
    \/ LifeReturn
    \/ LifeChildExit
    \/ LifeTick

SpecLife == Init /\ [][NextLife]_vars

(***************************************************************************)
(* SpecOut: the output of one child.  The child writes chunks to its two   *)
(* pipes, which its reader thread queues; the control thread starts the    *)
(* child, sends it input and refreshes, in any order.                      *)
(***************************************************************************)
MaxSpawnsOut == 1

OutRuns == {[command_string |-> <<"p">>, interactive |-> FALSE]}

OutInputs ==
    {[pid_or_cid |-> i, input_data |-> <<"y">>] : i \in {<<"1">>, <<>>}}

Chunks == {FiveLines, PromptText}

OutRunCommand ==
    /\ spawned < MaxSpawnsOut
    /\ \E args \in OutRuns, popen_ok \in BOOLEAN : RunCommandBegin(args, 1, popen_ok)
    /\ UNCHANGED loopVars

OutRunCommandFinish == RunCommandFinish /\ UNCHANGED loopVars

OutSendInput ==
    /\ \E args \in OutInputs, write_ok \in BOOLEAN : SendInputBegin(args, write_ok)
    /\ UNCHANGED loopVars

OutSendInputFinish == SendInputFinish /\ UNCHANGED loopVars

OutRefreshAll ==
    /\ \E late \in SUBSET (1..Len(running_processes)), code \in ExitCodes :
           RefreshAll(late, code)
    /\ UNCHANGED loopVars

OutReturn == Return /\ UNCHANGED loopVars

OutChildExit == (\E code \in ExitCodes : ChildExit(1, code)) /\ UNCHANGED loopVars

OutReaderPush ==
    /\ pushed < MaxEvents
    /\ \E stream \in {"stdout", "stderr"}, chunk \in Chunks :
           ReaderPush(1, stream, chunk)
    /\ UNCHANGED loopVars

NextOut ==
    \/ OutRunCommand
    \/ OutRunCommandFinish
    \/ OutSendInput
    \/ OutSendInputFinish
    \/ OutRefreshAll
    \/ OutReturn
    \/ OutChildExit
    \/ OutReaderPush

SpecOut == Init /\ [][NextOut]_vars

(***************************************************************************)
(* SpecDrain: SpecOut with short chunks, and a control thread that is not  *)
(* held up: a handler in time.sleep(0.2) goes on to its drain.  Nothing is *)
(* assumed of the child or of its reader thread.                           *)
(***************************************************************************)
MaxEventsDrain == 2

ShortChunks == {<<"a">>, <<"?", " ">>}

DrainReaderPush ==
    /\ pushed < MaxEventsDrain
    /\ \E stream \in {"stdout", "stderr"}, chunk \in ShortChunks :
           ReaderPush(1, stream, chunk)
    /\ UNCHANGED loopVars

NextDrain ==
    \/ OutRunCommand
    \/ OutRunCommandFinish
    \/ OutSendInput
    \/ OutSendInputFinish
    \/ OutRefreshAll
    \/ OutReturn
    \/ OutChildExit
    \/ DrainReaderPush

SpecDrain ==
    /\ Init /\ [][NextDrain]_vars
    /\ WF_vars(OutRunCommandFinish) /\ WF_vars(OutSendInputFinish)

(***************************************************************************)
(* The control loop and the dispatcher of main() (main.py:177-735).        *)
(*   pc = "top"      before update_and_get_running_processes_info          *)
(*   pc = "prompt"   waiting for the user and the generator                *)
(*   pc = "dispatch" in "for i, action_json in enumerate(actions)",        *)
(*                   before the action idx                                 *)
(*   pc = "handler"  inside action_handlers[action_name](args)             *)
(* A result carries the index of the action it is for; an invocation       *)
(* carries the answer to the confirmation prompt that preceded it.         *)
(***************************************************************************)
ActionHandlers ==
    {"read_file", "create_file", "update_file", "delete_file", "create_folder",
     "delete_folder", "list_directory", "change_directory", "run_command",
     "send_input_to_process", "kill_process"}

\* the handlers of file_operations.py that the model leaves abstract
FileHandlers ==
    {"read_file", "create_file", "update_file", "delete_file", "create_folder",
     "delete_folder", "list_directory"}

DangerousActions == {"delete_folder", "delete_file"}

NoAnswer == <<"<None>">>

\* variant of line 611: only the answer "n" cancels
DeclinedOnlyN(answer) == Lower(answer) = <<"n">>

\* confirmation = input(...).lower(); "if confirmation != 'y'"
Declined(answer) == Lower(answer) # <<"y">>

ResultFor(i, kind, text) == [i |-> i, kind |-> kind, text |-> text]

\* f"User cancelled action: {action_name}"
CancelledResult(i, action_name) == ResultFor(i, "cancelled", action_name)

\* f"System Error: LLM requested unknown action '{action_name}'. No action taken."
UnknownResult(i, action_name) == ResultFor(i, "unknown", action_name)

\* f"System Error: Exception during execution of action '{action_name}': ..."
ExceptionResult(i, action_name) == ResultFor(i, "exception", action_name)

\* result = action_handlers[action_name](args)
HandlerResult(i, text) == ResultFor(i, "result", text)

Invocation(i, action_name, answer, raised) ==
    [i |-> i, handler |-> action_name, answer |-> answer, raised |-> raised]

\* the loop goes on to the next action, whatever became of this one
NextAction(i) == i + 1

\* all_results.append(result), and on to the next action
Record(result) ==
    /\ all_results' = Append(all_results, result)
    /\ idx' = NextAction(idx)

\* the loop's call of update_and_get_running_processes_info (main.py:189)
LoopRefresh ==
    /\ pc = "top"
    /\ \E late \in SUBSET (1..Len(running_processes)) : RefreshAll(late, 0)
    /\ pc' = "prompt"
    /\ UNCHANGED <<actions, idx, all_results, invoked, llm_response_text>>

\* the generator cannot be reached: "continue"
LoopGeneratorError ==
    /\ pc = "prompt"
    /\ Return
    /\ pc' = "top"
    /\ UNCHANGED <<actions, idx, all_results, invoked, llm_response_text>>

\* extract_json_from_response found no action: a conversational response
LoopConversation ==
    /\ pc = "prompt"
    /\ Return
    /\ pc' = "top"
    /\ UNCHANGED <<actions, idx, all_results, invoked, llm_response_text>>

\* extract_json_from_response returned the normalized actions of the
\* response: "all_results = []", and the loop over them starts
LoopBatch(candidates) ==
    /\ pc = "prompt"
    /\ candidates # <<>>
    /\ Return
    /\ actions' = [k \in 1..Len(candidates) |-> normalize_action_object(candidates[k])]
    /\ idx' = 1
    /\ all_results' = <<>>
    /\ invoked' = <<>>
    /\ UNCHANGED llm_response_text
    /\ pc' = "dispatch"

CurrentName == actions[idx].action

\* args = action_json.get("args", {}); not a dict: {}
CurrentArgs == IF actions[idx].args_is_dict THEN actions[idx].args ELSE EmptyArgs

Dispatching == pc = "dispatch" /\ idx <= Len(actions)

\* "else" of "if action_name in action_handlers"
DispatchUnknown ==
    /\ Dispatching
    /\ CurrentName \notin ActionHandlers
    /\ Record(UnknownResult(idx, CurrentName))
    /\ UNCHANGED <<pc, actions, invoked, llm_response_text>>
    /\ UNCHANGED supVars

\* variant of lines 611-618: "continue" without all_results.append(result)
DispatchCancelledSkip(answer) ==
    /\ Dispatching
    /\ CurrentName \in ActionHandlers
    /\ CurrentName \in DangerousActions
    /\ Declined(answer)
    /\ idx' = NextAction(idx)
    /\ UNCHANGED <<pc, actions, invoked, all_results, llm_response_text>>
    /\ UNCHANGED supVars

\* a dangerous action that the user does not confirm
DispatchCancelled(answer) ==
    /\ Dispatching
    /\ CurrentName \in ActionHandlers
    /\ CurrentName \in DangerousActions
    /\ Declined(answer)
    /\ Record(CancelledResult(idx, CurrentName))
    /\ UNCHANGED <<pc, actions, invoked, llm_response_text>>
    /\ UNCHANGED supVars

\* the answer that lets the handler of the current action run
Confirms(answer) ==
    IF CurrentName \in DangerousActions THEN ~Declined(answer) ELSE answer = NoAnswer

\* variant of lines 600-648 without the two "except Exception": what a
\* handler raises ends the loop over the actions
DispatchFileHandlerUncaught(answer, outcome) ==
    /\ Dispatching
    /\ CurrentName \in FileHandlers
    /\ Confirms(answer)
    /\ invoked' = Append(invoked, Invocation(idx, CurrentName, answer, outcome = "raise"))
    /\ IF outcome = "raise"
       THEN idx' = Len(actions) + 1 /\ UNCHANGED all_results
       ELSE Record(HandlerResult(idx, outcome))
    /\ UNCHANGED <<pc, actions, llm_response_text>>
    /\ UNCHANGED supVars

\* a handler of file_operations.py: it returns a text, or it raises
DispatchFileHandler(answer, outcome) ==
    /\ Dispatching
    /\ CurrentName \in FileHandlers
    /\ Confirms(answer)
    /\ invoked' = Append(invoked, Invocation(idx, CurrentName, answer, outcome = "raise"))
    /\ Record(IF outcome = "raise"
              THEN ExceptionResult(idx, CurrentName)
              ELSE HandlerResult(idx, outcome))
    /\ UNCHANGED <<pc, actions, llm_response_text>>
    /\ UNCHANGED supVars

DispatchChangeDirectory ==
    /\ Dispatching
    /\ CurrentName = "change_directory"
    /\ hpc.at = "idle"
    /\ invoked' = Append(invoked, Invocation(idx, CurrentName, NoAnswer, FALSE))
    /\ cwd' = ChangeDirectory(ArgGet(CurrentArgs, "path", NoText), cwd).cwd
    /\ Record(HandlerResult(idx, ChangeDirectory(ArgGet(CurrentArgs, "path", NoText), cwd).result))
    /\ UNCHANGED <<pc, actions, llm_response_text>>
    /\ UNCHANGED <<running_processes, threads, now, spawned, pushed, io, fg, hpc,
                   ret, report>>

\* the control thread enters a handler of command_executor.py
EnterHandler ==
    /\ invoked' = Append(invoked, Invocation(idx, CurrentName, NoAnswer, FALSE))
    /\ pc' = "handler"
    /\ UNCHANGED <<actions, idx, all_results, llm_response_text>>

DispatchRunCommand(pid, popen_ok) ==
    /\ Dispatching
    /\ CurrentName = "run_command"
    /\ RunCommandBegin(CurrentArgs, pid, popen_ok)
    /\ EnterHandler

DispatchSendInput(write_ok) ==
    /\ Dispatching
    /\ CurrentName = "send_input_to_process"
    /\ SendInputBegin(CurrentArgs, write_ok)
    /\ EnterHandler

DispatchKillProcess(outcome) ==
    /\ Dispatching
    /\ CurrentName = "kill_process"
    /\ KillProcess(CurrentArgs, outcome)
    /\ EnterHandler

\* the handler returns: all_results.append(result)
DispatchReturn ==
    /\ pc = "handler"
    /\ hpc.at = "done"
    /\ Record(HandlerResult(idx, ret))
    /\ Return
    /\ pc' = "dispatch"
    /\ UNCHANGED <<actions, invoked, llm_response_text>>

\* the batch is over: the results are combined, and the loop starts again
LoopBatchDone ==
    /\ pc = "dispatch"
    /\ idx > Len(actions)
    /\ pc' = "top"
    /\ actions' = <<>>
    /\ idx' = 0
    /\ all_results' = <<>>
    /\ invoked' = <<>>
    /\ UNCHANGED llm_response_text
    /\ UNCHANGED supVars

(***************************************************************************)
(* SpecLoop: the control loop with its dispatcher, the handlers and the    *)
(* children they start.                                                    *)
(***************************************************************************)
MaxSpawnsLoop == 1

\* what the generator may ask for, before normalization
Candidates ==
    { [action |-> "run_command", args |-> [command_string |-> <<"p">>],
       args_is_dict |-> TRUE],
      [action |-> "run_command",
       args |-> [command_string |-> <<"p">>, cid |-> CidS1, interactive |-> FALSE],
       args_is_dict |-> TRUE],
      [action |-> "run_command", args |-> [command_string |-> <<"c", "d", " ", "f">>],
       args_is_dict |-> TRUE],
      [action |-> "delete_file", args |-> [path |-> <<"x">>], args_is_dict |-> TRUE],
      [action |-> "rmdir", args |-> [folder |-> <<"x">>], args_is_dict |-> TRUE],
      [action |-> "frobnicate", args |-> EmptyArgs, args_is_dict |-> FALSE],
      [action |-> "create_file", args |-> [file |-> <<"x">>], args_is_dict |-> TRUE],
      [action |-> "send_input_to_process",
       args |-> [pid |-> <<"1">>, input |-> <<"y">>], args_is_dict |-> TRUE],
      [action |-> "stop_process", args |-> [id |-> CidS1], args_is_dict |-> TRUE] }

Batches == UNION {[1..n -> Candidates] : n \in 1..MaxBatch}

Answers == { <<"y">>, <<"Y">>, <<"n">>, <<>>, <<"y", "e", "s">> }

FileOutcomes == {"Success", "raise"}

LoopResponse == \E candidates \in Batches : LoopBatch(candidates)

LoopDispatchCancelled == \E answer \in Answers : DispatchCancelled(answer)

LoopDispatchFileHandler ==
    \E answer \in Answers \cup {NoAnswer}, outcome \in FileOutcomes :
        DispatchFileHandler(answer, outcome)

LoopDispatchRunCommand ==
    /\ Dispatching
    /\ spawned < MaxSpawnsLoop \/ ArgGet(CurrentArgs, "interactive", TRUE)
    /\ \E popen_ok \in BOOLEAN : DispatchRunCommand(1, popen_ok)

LoopDispatchSendInput == \E write_ok \in BOOLEAN : DispatchSendInput(write_ok)

LoopDispatchKillProcess ==
    \E outcome \in {"term", "kill", "stuck"} : DispatchKillProcess(outcome)

LoopRunCommandFinish == RunCommandFinish /\ UNCHANGED loopVars

LoopSendInputFinish == SendInputFinish /\ UNCHANGED loopVars

LoopOsSystemReturn == OsSystemReturn /\ UNCHANGED loopVars

LoopFgChildExit == FgChildExit /\ UNCHANGED loopVars

LoopChildExit == ChildExit(1, 0) /\ UNCHANGED loopVars

NextLoop ==
    \/ LoopRefresh
    \/ LoopGeneratorError
    \/ LoopConversation
    \/ LoopResponse
    \/ DispatchUnknown
    \/ LoopDispatchCancelled
    \/ LoopDispatchFileHandler
    \/ DispatchChangeDirectory
    \/ LoopDispatchRunCommand
    \/ LoopDispatchSendInput
    \/ LoopDispatchKillProcess
    \/ LoopRunCommandFinish
    \/ LoopSendInputFinish
    \/ LoopOsSystemReturn
    \/ DispatchReturn
    \/ LoopBatchDone
    \/ LoopFgChildExit
    \/ LoopChildExit

SpecLoop == Init /\ [][NextLoop]_vars

(***************************************************************************)
(* SpecFind: the control loop with batches of one action on up to two      *)
(* children, of which either may come to wait for input: the resolution of *)
(* "pid_or_cid" by kill_process and send_input_to_process.                 *)
(***************************************************************************)
MaxSpawnsFind == 2

MaxEventsFind == 2

FindPids == {1, 2}

FindCandidates ==
    { [action |-> "run_command",
       args |-> [command_string |-> <<"p">>, cid |-> c, interactive |-> FALSE],
       args_is_dict |-> TRUE] : c \in {CidS1, <<"2">>} }
    \cup
    \* the format of the system prompt: "cid" beside "action" and "args"
    { [action |-> "run_command",
       args |-> [command_string |-> <<"p">>, interactive |-> FALSE],
       args_is_dict |-> TRUE, cid |-> CidS1] }
    \cup
    { [action |-> "kill_process", args |-> [pid_or_cid |-> i],
       args_is_dict |-> TRUE] : i \in Identifiers }
    \cup
    { [action |-> "kill_process", args |-> EmptyArgs, args_is_dict |-> FALSE] }
    \cup
    { [action |-> "send_input_to_process",
       args |-> [pid_or_cid |-> i, input_data |-> <<"y">>],
       args_is_dict |-> TRUE] : i \in Identifiers }

FindResponse == \E c \in FindCandidates : LoopBatch(<<c>>)

FindDispatchRunCommand ==
    /\ Dispatching
    /\ spawned < MaxSpawnsFind
    /\ \E pid \in FindPids : DispatchRunCommand(pid, TRUE)

FindDispatchSendInput == DispatchSendInput(TRUE)

FindDispatchKillProcess == DispatchKillProcess("term")

FindRunCommandFinish == RunCommandFinish /\ UNCHANGED loopVars

FindSendInputFinish == SendInputFinish /\ UNCHANGED loopVars

FindReaderPush ==
    /\ pushed < MaxEventsFind
    /\ \E pid \in FindPids : ReaderPush(pid, "stdout", PromptText)
    /\ UNCHANGED loopVars

NextFind ==
    \/ LoopRefresh
    \/ FindResponse
    \/ FindDispatchRunCommand
    \/ FindDispatchSendInput
    \/ FindDispatchKillProcess
    \/ FindRunCommandFinish
    \/ FindSendInputFinish
    \/ DispatchReturn
    \/ LoopBatchDone
    \/ FindReaderPush

SpecFind == Init /\ [][NextFind]_vars

(***************************************************************************)
(* SpecNorm: normalize_action_object applied to one action object: an      *)
(* alias or a canonical name, with args that hold canonical keys, accepted *)
(* synonyms, both or neither, or with args that are not a dict.            *)
(***************************************************************************)
NormArgs ==
    {EmptyArgs,
     [folder |-> <<"x">>],
     [path |-> <<"y">>, folder |-> <<"x">>],
     [dir |-> <<"d">>, folder |-> <<"x">>],
     [file |-> <<"f">>, text |-> <<"t">>, data |-> <<"u">>],
     [content |-> <<"c">>, filename |-> <<"n">>, dest |-> <<"e">>],
     [command |-> <<"l">>, id |-> <<"i">>, run |-> <<"r">>],
     [pid |-> <<"1">>, cid |-> CidS1, input |-> <<"y">>]}

NormCandidates ==
    { [action |-> a, args |-> args, args_is_dict |-> TRUE] :
          a \in (DOMAIN ActionMap) \cup {"create_folder", "frobnicate"},
          args \in NormArgs }
    \cup { [action |-> a, args |-> EmptyArgs, args_is_dict |-> FALSE] :
              a \in DOMAIN ActionMap }

InitNorm ==
    /\ InitSup
    /\ pc = "normalize"
    /\ actions \in {<<c>> : c \in NormCandidates}
    /\ idx = 1
    /\ all_results = <<>>
    /\ invoked = <<>>
    /\ llm_response_text = <<>>

\* normalized_action = normalize_action_object(action_item)
NormApply ==
    /\ pc = "normalize"
    /\ invoked' = <<normalize_action_object(actions[idx])>>
    /\ pc' = "normalized"
    /\ UNCHANGED <<actions, idx, all_results, llm_response_text>>
    /\ UNCHANGED supVars

SpecNorm == InitNorm /\ [][NormApply]_vars

(***************************************************************************)
(* Candidates that name run_command, directly or by an alias, with a       *)
(* command text under "command_string" or under an accepted key, and the   *)
(* normalizer applied to its own result.                                   *)
(***************************************************************************)
CommandTexts ==
    {<<"c","d"," ","f">>, <<" ","c","d"," ","f"," ">>, <<"c","d"," ","f"," ","g">>,
     <<"c","d"," ">>, <<"c","d">>, <<"c","d","f">>, <<"l","s">>}

RunNames == {"run_command"} \cup {a \in DOMAIN ActionMap : ActionMap[a] = "run_command"}

CommandArgs ==
    {[command_string |-> text] : text \in CommandTexts}
    \cup {[command |-> text] : text \in CommandTexts}
    \cup {[command_string |-> text, cid |-> CidS1] : text \in CommandTexts}
    \cup {[command_string |-> text, path |-> <<"y">>] : text \in CommandTexts}

CdCandidates ==
    { [action |-> a, args |-> args, args_is_dict |-> TRUE] :
          a \in RunNames \cup {"cd"}, args \in CommandArgs }

InitTwice ==
    /\ InitSup
    /\ pc = "normalize"
    /\ actions \in {<<c>> : c \in NormCandidates \cup CdCandidates}
    /\ idx = 1
    /\ all_results = <<>>
    /\ invoked = <<>>
    /\ llm_response_text = <<>>

\* normalize_action_object applied to the action it returned
NormAgain ==
    /\ pc = "normalized"
    /\ invoked' = Append(invoked, normalize_action_object(invoked[1]))
    /\ pc' = "renormalized"
    /\ UNCHANGED <<actions, idx, all_results, llm_response_text>>
    /\ UNCHANGED supVars

NextTwice ==
    \/ NormApply
    \/ NormAgain

SpecTwice == InitTwice /\ [][NextTwice]_vars

(***************************************************************************)
(* SpecExtract: the control loop on responses given as text: action        *)
(* objects of the generator in the forms the extraction recognizes (a      *)
(* fenced array, adjacent objects in a fence or as the whole response, a   *)
(* wrapper object), cut-off texts, prose, and a response that is no str.   *)
(***************************************************************************)
Quoted(s) == <<"\"">> \o s \o <<"\"">>

\* the JSON text of the action object obj: {"action": name, "args": {"dir": value}}
\* with its keys in either order
ActionText(obj) ==
    LET action == Quoted(<<"a","c","t","i","o","n">>) \o <<":">> \o Quoted(obj.name)
        args == Quoted(<<"a","r","g","s">>) \o <<":", "{">>
                    \o Quoted(<<"d","i","r">>) \o <<":">> \o Quoted(obj.value) \o <<"}">>
    IN  IF obj.action_first
        THEN <<"{">> \o action \o <<",">> \o args \o <<"}">>
        ELSE <<"{">> \o args \o <<",">> \o action \o <<"}">>

RECURSIVE Joined(_, _)
Joined(objs, separator) ==
    IF Len(objs) = 1 THEN ActionText(objs[1])
    ELSE ActionText(objs[1]) \o separator \o Joined(Tail(objs), separator)

ArrayText(objs) == <<"[">> \o Joined(objs, <<",", " ">>) \o <<"]">>

AdjacentText(objs) == Joined(objs, <<"\n">>)

Fenced(body) == FenceJson \o <<"\n">> \o body \o <<"\n">> \o Fence

\* values of "dir": a directory, and texts that hold a fence or a bracket
Objects ==
    [name : {<<"a">>, <<"c","d">>},
     value : {<<"f">>, Fence, <<"]">> \o Fence},
     action_first : BOOLEAN]

PlainObjects == {obj \in Objects : obj.value = <<"f">> /\ obj.action_first}

ObjectLists ==
    {<<obj>> : obj \in Objects} \cup {<<obj, last>> : obj \in Objects, last \in PlainObjects}

ObjectPairs == {objs \in ObjectLists : Len(objs) = 2}

CutOff(text) == {SubSeq(text, 1, n) : n \in 0..(Len(text) - 1)}

Wrapped(key, objs) ==
    Fenced(<<"{">> \o Quoted(key) \o <<":">> \o ArrayText(objs) \o <<"}">>)

ResponseTexts ==
    {Fenced(ArrayText(objs)) : objs \in ObjectLists}
    \cup {ArrayText(objs) : objs \in ObjectLists}
    \cup {Fenced(AdjacentText(objs)) : objs \in ObjectPairs}
    \cup {AdjacentText(objs) : objs \in ObjectPairs}
    \cup {Fenced(ActionText(obj)) : obj \in Objects}
    \cup {Wrapped(key, objs) : key \in {<<"c","o","m","m","a","n","d","s">>,
                                        <<"a","c","t","i","o","n","_","i","t","e","m","s">>,
                                        <<"i","t","e","m","s">>},
                               objs \in {<<obj>> : obj \in PlainObjects}}
    \cup UNION {CutOff(Fenced(ArrayText(objs))) : objs \in {<<obj, obj>> : obj \in PlainObjects}}
    \cup UNION {CutOff(AdjacentText(objs)) : objs \in {<<obj, obj>> : obj \in PlainObjects}}
    \cup {NoText, <<"h", "i">>, Fenced(Quoted(<<"h", "i">>)), Fenced(<<"[", "]">>)}

\* the generator's response has arrived (main.py:476-563)
LoopResponds ==
    /\ pc = "prompt"
    /\ Return
    /\ \E text \in ResponseTexts : llm_response_text' = text
    /\ pc' = "extract"
    /\ UNCHANGED <<actions, idx, all_results, invoked>>

\* actions = extract_json_from_response(llm_response_text), and what the loop
\* makes of it (main.py:565-672): a batch, a conversational response, or
\* the except clause of line 667
LoopExtract ==
    /\ pc = "extract"
    /\ LET extracted == extract_json_from_response(llm_response_text)
       IN  IF ~extracted.raised /\ extracted.actions # <<>>
           THEN /\ actions' = extracted.actions
                /\ idx' = 1
                /\ pc' = "dispatch"
           ELSE /\ pc' = "top"
                /\ UNCHANGED <<actions, idx>>
    /\ UNCHANGED <<all_results, invoked, llm_response_text>>
    /\ UNCHANGED supVars

NextExtract ==
    \/ LoopRefresh
    \/ LoopResponds
    \/ LoopExtract
    \/ DispatchUnknown
    \/ DispatchChangeDirectory
    \/ LoopBatchDone

SpecExtract == Init /\ [][NextExtract]_vars

(***************************************************************************)
(* cleanup_running_processes and the ways out of the control loop          *)
(* (process_manager.py:204-236, main.py:163-175, 254-259, 735-759).        *)
(***************************************************************************)
\* the status of a child ended by SIGTERM
TermCode == -15

\* how a child answers process.terminate(): "term" it ends within the first
\* wait, "kill" within the wait that follows process.kill(), "stuck" within
\* neither, "raise" the signal cannot be sent and the call raises
CleanupOutcomes == {"term", "kill", "stuck", "raise"}

\* one iteration of the loop of cleanup_running_processes: the record after
\* it, what is printed for it and the signals sent
CleanupRecord(data, outcome) ==
    LET process == Poll(data.process)
        polled == [data EXCEPT !.process = process]
        line(state) == [pid |-> data.pid, id |-> data.process.id, state |-> state]
    IN  IF process.returncode # None
        THEN [data |-> polled, printed |-> line("terminating"), signals |-> {}]
        ELSE IF outcome = "raise"
        THEN [data |-> polled, printed |-> line("error"), signals |-> {}]
        ELSE IF outcome = "term"
        THEN [data |-> [polled EXCEPT !.process.exit = TermCode,
                                      !.process.returncode = TermCode],
              printed |-> line("terminating"),
              signals |-> {<<"signal", data.process.id, <<"TERM">>>>}]
        ELSE IF outcome = "kill"
        THEN [data |-> [polled EXCEPT !.process.sigkilled = TRUE,
                                      !.process.exit = KillCode,
                                      !.process.returncode = KillCode],
              printed |-> line("terminating"),
              signals |-> {<<"signal", data.process.id, <<"TERM">>>>,
                           <<"signal", data.process.id, <<"KILL">>>>}]
        ELSE [data |-> [polled EXCEPT !.process.sigkilled = TRUE],
              printed |-> line("warning"),
              signals |-> {<<"signal", data.process.id, <<"TERM">>>>,
                           <<"signal", data.process.id, <<"KILL">>>>}]

\* variant without the try of lines 223-236: an error ends the loop
CleanupUntilError(outcomes) ==
    LET table == running_processes
        n == Len(table)
        done == [i \in 1..n |-> CleanupRecord(table[i], outcomes[i])]
        failed == {i \in 1..n : done[i].printed.state = "error"}
        last == IF failed = {} THEN n
                ELSE CHOOSE i \in failed : \A j \in failed : i <= j
    IN
    /\ running_processes' = [i \in 1..n |-> IF i <= last THEN done[i].data ELSE table[i]]
    /\ threads' = ClosePipes(threads, {table[i].process.id : i \in 1..last})
    /\ report' = [i \in 1..last |-> done[i].printed]
    /\ io' = UNION {done[i].signals : i \in 1..last}
    /\ UNCHANGED <<now, spawned, pushed, fg, cwd, hpc, ret>>

\* cleanup_running_processes: every record of the table in turn, the pipes
\* closed first.  No record is removed.
cleanup_running_processes(outcomes) ==
    LET table == running_processes
        n == Len(table)
        done == [i \in 1..n |-> CleanupRecord(table[i], outcomes[i])]
    IN
    /\ running_processes' = [i \in 1..n |-> done[i].data]
    /\ threads' = ClosePipes(threads, {table[i].process.id : i \in 1..n})
    /\ report' = [i \in 1..n |-> done[i].printed]
    /\ io' = UNION {done[i].signals : i \in 1..n}
    /\ UNCHANGED <<now, spawned, pushed, fg, cwd, hpc, ret>>

InLoop == pc \in {"top", "prompt", "dispatch", "handler"}

CleanupChoices == [1..Len(running_processes) -> CleanupOutcomes]

\* "quit" or "exit" at the prompt: break, and the finally clause of main()
Quit ==
    /\ pc = "prompt"
    /\ pc' = "finally"
    /\ UNCHANGED supVars
    /\ UNCHANGED <<actions, idx, all_results, invoked, llm_response_text>>

\* SIGINT anywhere in the loop: signal_handler cleans up and calls exit(0),
\* whose SystemExit leaves the loop through the finally clause
Interrupt ==
    /\ InLoop
    /\ \E outcomes \in CleanupChoices : cleanup_running_processes(outcomes)
    /\ pc' = "finally"
    /\ UNCHANGED <<actions, idx, all_results, invoked, llm_response_text>>

\* an exception outside the try of the dispatcher (the report, the
\* directory tree, input()) leaves the loop
UnexpectedError ==
    /\ pc \in {"top", "prompt"}
    /\ pc' = "finally"
    /\ UNCHANGED supVars
    /\ UNCHANGED <<actions, idx, all_results, invoked, llm_response_text>>

\* the finally clause of main() (lines 740-742)
MainFinally ==
    /\ pc = "finally"
    /\ \E outcomes \in CleanupChoices : cleanup_running_processes(outcomes)
    /\ pc' = "main_returned"
    /\ UNCHANGED <<actions, idx, all_results, invoked, llm_response_text>>

\* the finally clause around main() (lines 757-759): the program ends
ModuleFinally ==
    /\ pc = "main_returned"
    /\ \E outcomes \in CleanupChoices : cleanup_running_processes(outcomes)
    /\ pc' = "exited"
    /\ UNCHANGED <<actions, idx, all_results, invoked, llm_response_text>>

(***************************************************************************)
(* SpecExit: the control loop starts up to two background children, which  *)
(* may end by themselves, and is left by quit, by an interrupt or by an    *)
(* error.                                                                  *)
(***************************************************************************)
ExitResponse ==
    \E c \in {CidS1, <<"2">>} :
        LoopBatch(<<[action |-> "run_command",
                     args |-> [command_string |-> <<"p">>, cid |-> c,
                               interactive |-> FALSE],
                     args_is_dict |-> TRUE]>>)

ExitChildExit ==
    /\ pc # "exited"
    /\ \E pid \in FindPids : ChildExit(pid, 0)
    /\ UNCHANGED loopVars

NextExit ==
    \/ LoopRefresh
    \/ ExitResponse
    \/ FindDispatchRunCommand
    \/ FindRunCommandFinish
    \/ DispatchReturn
    \/ LoopBatchDone
    \/ ExitChildExit
    \/ Quit
    \/ Interrupt
    \/ UnexpectedError
    \/ MainFinally
    \/ ModuleFinally

SpecExit == Init /\ [][NextExit]_vars

(***************************************************************************)
(* SpecSup: the supervisor with its reader threads.  The control thread    *)
(* calls run_command (in the background), send_input_to_process,           *)
(* kill_process and the refresh in any order; the reader threads queue     *)
(* output and end once their pipes are closed; children end when they      *)
(* like, the operating system gives a free pid to a new child, the clock   *)
(* advances.                                                               *)
(***************************************************************************)
MaxSpawnsSup == 2

MaxPidSup == 1

MaxEventsSup == 2

SupRuns == {[command_string |-> <<"p">>, cid |-> CidS1, interactive |-> FALSE]}

SupIdentifiers == {<<"1">>, <<"z">>}

SupInputs == {[pid_or_cid |-> i, input_data |-> <<"y">>] : i \in SupIdentifiers}

SupKills == {[pid_or_cid |-> i] : i \in SupIdentifiers}

SupRunCommand ==
    /\ spawned < MaxSpawnsSup
    /\ \E args \in SupRuns, pid \in 1..MaxPidSup : RunCommandBegin(args, pid, TRUE)
    /\ UNCHANGED loopVars

SupRunCommandFinish == RunCommandFinish /\ UNCHANGED loopVars

SupSendInput ==
    /\ \E args \in SupInputs, write_ok \in BOOLEAN : SendInputBegin(args, write_ok)
    /\ UNCHANGED loopVars

SupSendInputFinish == SendInputFinish /\ UNCHANGED loopVars

SupKillProcess ==
    /\ \E args \in SupKills, outcome \in {"term", "kill", "stuck"} :
           KillProcess(args, outcome)
    /\ UNCHANGED loopVars

SupRefreshAll ==
    /\ \E late \in SUBSET (1..Len(running_processes)) : RefreshAll(late, 0)
    /\ UNCHANGED loopVars

SupReturn == Return /\ UNCHANGED loopVars

SupChildExit ==
    /\ \E pid \in 1..MaxPidSup : ChildExit(pid, 0)
    /\ UNCHANGED loopVars

SupReaderPush ==
    /\ pushed < MaxEventsSup
    /\ \E pid \in 1..MaxPidSup, stream \in {"stdout", "stderr"}, chunk \in ShortChunks :
           ReaderPush(pid, stream, chunk)
    /\ UNCHANGED loopVars

SupReaderExit ==
    /\ \E id \in 1..MaxSpawnsSup : ReaderExit(id)
    /\ UNCHANGED loopVars

SupTick ==
    /\ Tick(61)
    /\ UNCHANGED loopVars

NextSup ==
    \/ SupRunCommand
    \/ SupRunCommandFinish
    \/ SupSendInput
    \/ SupSendInputFinish
    \/ SupKillProcess
    \/ SupRefreshAll
    \/ SupReturn
    \/ SupChildExit
    \/ SupReaderPush
    \/ SupReaderExit
    \/ SupTick

SpecSup == Init /\ [][NextSup]_vars

\* a reader thread that can end does end, and the control thread goes on:
\* the handlers return and the loop keeps calling the refresh
SpecSupFair ==
    /\ SpecSup
    /\ WF_vars(SupReaderExit)
    /\ WF_vars(SupRunCommandFinish)
    /\ WF_vars(SupSendInputFinish)
    /\ WF_vars(SupReturn)
    /\ WF_vars(SupRefreshAll)

(***************************************************************************)
(* SpecCd: the loop dispatching responses of one action that names         *)
(* run_command, directly or by an alias, with a command text that is or is *)
(* not a change of directory.                                              *)
(***************************************************************************)
MaxSpawnsCd == 1

CdResponses ==
    {<<c>> : c \in CdCandidates}
    \cup {<<[c EXCEPT !.args = ArgSet(c.args, "interactive", FALSE)]>> : c \in CdCandidates}

CdResponse == \E candidates \in CdResponses : LoopBatch(candidates)

CdDispatchRunCommand ==
    /\ Dispatching
    /\ spawned < MaxSpawnsCd \/ ArgGet(CurrentArgs, "interactive", TRUE)
    /\ DispatchRunCommand(1, TRUE)

NextCd ==
    \/ LoopRefresh
    \/ CdResponse
    \/ CdDispatchRunCommand
    \/ DispatchChangeDirectory
    \/ LoopRunCommandFinish
    \/ LoopOsSystemReturn
    \/ LoopFgChildExit
    \/ LoopChildExit
    \/ DispatchReturn
    \/ LoopBatchDone

SpecCd == Init /\ [][NextCd]_vars

(***************************************************************************)
(* Properties of the process table (SpecLife).                             *)
(***************************************************************************)
RecIds(table) == {table[i].process.id : i \in 1..Len(table)}

ReportIds == {report[i].id : i \in 1..Len(report)}

SignalledIds == {e[2] : e \in {s \in io : s[1] = "signal"}}

RefreshStep == hpc.at = "idle" /\ hpc'.at = "refreshed"

\* a step that drains the record data: the end of run_command or of
\* send_input_to_process on its pid, or a refresh
DrainStepOf(data) ==
    \/ RefreshStep
    \/ /\ hpc.at \in {"run_sleep", "input_sleep"}
       /\ hpc'.at = "done"
       /\ hpc.pid = data.pid

\* C6 (as stated): when kill_process returns after signalling a record, that
\* record is no longer in the process table, whatever the outcome.
C6_RemovedOnReturn ==
    hpc.at = "done" => SignalledIds \cap RecIds(running_processes) = {}

\* C9: refreshAll removes a record only when its child has ended and more than 60
\* seconds have passed since its completion_time; every record of the table
\* is in the report of the refresh, a report holds no other record, and a
\* record enters the table only as a new child, so that a reaped record is
\* in no later report.
C9_GraceBeforeReap ==
    [][ /\ RefreshStep =>
            /\ ReportIds' = RecIds(running_processes)
            /\ \A i \in 1..Len(running_processes) :
                   LET data == running_processes[i]
                   IN  data.process.id \notin RecIds(running_processes') =>
                           /\ data.process.exit # None
                           /\ data.completion_time # None
                           /\ now - data.completion_time > GracePeriod
        /\ ~RefreshStep => report' \in {report, <<>>}
        /\ \A id \in RecIds(running_processes') \ RecIds(running_processes) :
               id > spawned
      ]_vars

\* a refresh has just reaped a record: it is in the report, not in the table
C9_Witness ==
    /\ hpc.at = "refreshed"
    /\ \E i \in 1..Len(report) :
           /\ report[i].state = "completed"
           /\ report[i].id \notin RecIds(running_processes)

\* C10: a record that is completed stays completed with the same exit_code;
\* completed becomes true only in a drain of the record, with the status of
\* the ended child as exit_code; and a drain that finds the child ended
\* leaves the record completed.
C10_CompletedOnce ==
    [][ \A i \in 1..Len(running_processes), j \in 1..Len(running_processes') :
            LET data == running_processes[i]
                after == running_processes'[j]
            IN  data.process.id = after.process.id =>
                    /\ data.completed =>
                           after.completed /\ after.exit_code = data.exit_code
                    /\ (~data.completed /\ after.completed) =>
                           /\ DrainStepOf(data)
                           /\ data.process.exit # None
                           /\ after.exit_code = data.process.exit
                    /\ (DrainStepOf(data) /\ data.process.exit # None) =>
                           after.completed
                    /\ ~after.completed => after.exit_code = None
      ]_vars

\* a completed record that a later refresh has seen again (its completion
\* time is in the past) and that is still in the table
C10_Witness ==
    \E i \in 1..Len(running_processes) :
        /\ running_processes[i].completed
        /\ running_processes[i].exit_code = 1
        /\ running_processes[i].completion_time # None
        /\ running_processes[i].completion_time < now

(***************************************************************************)
(* Properties of the dispatcher (SpecLoop).                                *)
(***************************************************************************)
InBatch == pc \in {"dispatch", "handler"}

InvokedAt(k) == \E n \in 1..Len(invoked) : invoked[n].i = k

\* C1 (as stated): while run_command is dispatched the control thread is
\* only ever at the bounded wait that follows the spawn, or about to return;
\* it never waits for the child to exit.
C1_RunCommandReturns ==
    (pc = "handler" /\ CurrentName = "run_command") =>
        hpc.at \in {"run_sleep", "done"}

\* C2: during a batch the results are those of the actions already done,
\* one each and in the order of the actions; the handlers are entered in
\* the order of the actions, one at a time; and at the end of the batch
\* there are as many results as actions.
C2_OneResultPerAction ==
    InBatch =>
        /\ idx \in 1..(Len(actions) + 1)
        /\ pc = "handler" => idx <= Len(actions)
        /\ Len(all_results) = idx - 1
        /\ \A k \in 1..Len(all_results) : all_results[k].i = k
        /\ \A n \in 1..Len(invoked) :
               /\ invoked[n].i <= idx
               /\ invoked[n].i = idx => pc = "handler" \/ hpc.at = "idle"
               /\ n > 1 => invoked[n - 1].i < invoked[n].i
               /\ invoked[n].i < idx => invoked[n].i <= Len(all_results)

\* a batch of two is over: the first action was cancelled, the second unknown
C2_Witness ==
    /\ pc = "dispatch"
    /\ Len(actions) = 2
    /\ idx = 3
    /\ all_results[1].kind = "cancelled"
    /\ all_results[2].kind = "unknown"

\* C3: when a handler has raised, the result of its action is the text of
\* the exception, the loop is on a later action of the same batch (or at its
\* end, from where the control loop starts its next turn), and no action
\* before it is without a result.
C3_ExceptionCaught ==
    \A n \in 1..Len(invoked) :
        invoked[n].raised =>
            /\ InBatch
            /\ idx > invoked[n].i
            /\ idx <= Len(actions) + 1
            /\ Len(all_results) >= invoked[n].i
            /\ all_results[invoked[n].i] =
                   ExceptionResult(invoked[n].i, invoked[n].handler)
            /\ Len(all_results) = idx - 1

\* the first handler raised, and the second action has been carried out
C3_Witness ==
    /\ Len(invoked) = 2
    /\ invoked[1].raised
    /\ Len(all_results) = 2
    /\ all_results[2].kind = "result"

\* C4: the normalizer leaves a name that is neither canonical nor an alias
\* as it is; the result of an action with such a name says that the action
\* is unknown, no handler was entered for it, and the loop has gone on to
\* the next action.
C4_UnknownPassedThrough ==
    /\ \A c \in Candidates :
           (c.action \notin ActionHandlers /\ c.action \notin DOMAIN ActionMap) =>
               normalize_action_object(c).action = c.action
    /\ InBatch =>
           \A k \in 1..Len(actions) :
               (actions[k].action \notin ActionHandlers /\ k < idx) =>
                   /\ Len(all_results) >= k
                   /\ all_results[k] = UnknownResult(k, actions[k].action)
                   /\ ~InvokedAt(k)

\* an unknown action came first, and the action after it has its result
C4_Witness ==
    /\ InBatch
    /\ Len(actions) = 2
    /\ actions[1].action = "frobnicate"
    /\ Len(all_results) = 2
    /\ all_results[1].kind = "unknown"
    /\ all_results[2].kind = "result"

\* C5: a handler of delete_file or delete_folder is entered only with the
\* answer "y" (in either case) given for its action; an action that was
\* answered otherwise has the result "cancelled" and no handler was entered
\* for it; and the loop has gone on to the next action.
C5_ConfirmedDeletes ==
    InBatch =>
        /\ \A n \in 1..Len(invoked) :
               invoked[n].handler \in DangerousActions =>
                   /\ Lower(invoked[n].answer) = <<"y">>
                   /\ actions[invoked[n].i].action = invoked[n].handler
        /\ \A k \in 1..Len(all_results) :
               all_results[k].kind = "cancelled" =>
                   /\ actions[k].action \in DangerousActions
                   /\ all_results[k] = CancelledResult(k, actions[k].action)
                   /\ ~InvokedAt(k)
                   /\ idx > k
        /\ \A k \in 1..Len(actions) :
               (actions[k].action \in DangerousActions /\ k < idx) =>
                   (all_results[k].kind = "cancelled") # InvokedAt(k)

\* one deletion was refused, and the other carried out on the answer "Y"
C5_Witness ==
    /\ InBatch
    /\ Len(all_results) = 2
    /\ all_results[1].kind = "cancelled"
    /\ \E n \in 1..Len(invoked) :
           /\ invoked[n].i = 2
           /\ invoked[n].handler = "delete_folder"
           /\ invoked[n].answer = <<"Y">>

(***************************************************************************)
(* Properties of the output of a child (SpecOut).                          *)
(***************************************************************************)
InputIds == {e[2] : e \in {s \in io : s[1] = "stdin"}}

HasPromptLine(lines) ==
    \E k \in 1..Len(lines) : lines[k] = Tagged("stdout", PromptText)

\* send_input_to_process has written to the child and is in its sleep
InputWritten == hpc.at = "idle" /\ hpc'.at = "input_sleep"

InputReturns == hpc.at = "input_sleep" /\ hpc'.at = "done"

\* C7 (as stated): when send_input_to_process has written its input and
\* returned, the record it wrote to is not expecting input.
C7_ClearedOnReturn ==
    hpc.at = "done" =>
        \A i \in 1..Len(running_processes) :
            running_processes[i].process.id \in InputIds =>
                ~running_processes[i].expecting_input

\* C7 (amended): a drain that takes a stdout line with a prompt keyword from
\* the queue leaves expecting_input true; send_input_to_process sets it to
\* false when it has written the input; and when it returns the flag is true
\* exactly if its own drain took such a line from the queue.
C7_PromptThenInput ==
    [][ \A i \in 1..Len(running_processes), j \in 1..Len(running_processes') :
            LET data == running_processes[i]
                after == running_processes'[j]
            IN  data.process.id = after.process.id =>
                    /\ (DrainStepOf(data) /\ QueueHasPrompt(data.output_queue)) =>
                           after.expecting_input
                    /\ (InputWritten /\ hpc'.pid = data.pid) =>
                           ~after.expecting_input
                    /\ (InputReturns /\ hpc.pid = data.pid) =>
                           /\ data.process.id \in InputIds
                           /\ ~data.expecting_input
                           /\ after.expecting_input = QueueHasPrompt(data.output_queue)
      ]_vars

\* the prompt of the child has been drained, input has been sent since, and
\* on the return of send_input_to_process the record is not expecting input
C7_Witness ==
    /\ hpc.at = "done"
    /\ \E i \in 1..Len(running_processes) :
           /\ running_processes[i].process.id \in InputIds
           /\ HasPromptLine(running_processes[i].output_lines)
           /\ ~running_processes[i].expecting_input

\* C8: a drain leaves in output_lines the last 10 of the lines it had
\* followed by the tagged lines of the queued events, in the order of the
\* events; output_lines is never longer than 10, and only a drain changes it.
C8_LastTenLines ==
    [][ \A i \in 1..Len(running_processes), j \in 1..Len(running_processes') :
            LET data == running_processes[i]
                after == running_processes'[j]
                all == data.output_lines \o QueueLines(data.output_queue)
                kept == after.output_lines
            IN  data.process.id = after.process.id =>
                    /\ Len(kept) <= 10
                    /\ DrainStepOf(data) =>
                           /\ Len(kept) = IF Len(all) < 10 THEN Len(all) ELSE 10
                           /\ \A k \in 1..Len(kept) :
                                  kept[k] = all[Len(all) - Len(kept) + k]
                           /\ after.output_queue = <<>>
                    /\ ~DrainStepOf(data) => kept = data.output_lines
      ]_vars

\* the buffer is full and the queue drained, and the first line kept is
\* not the first line the child wrote: the two oldest lines were evicted
C8_Witness ==
    \E i \in 1..Len(running_processes) :
        /\ Len(running_processes[i].output_lines) = 10
        /\ running_processes[i].output_lines[1].text = <<"c">>
        /\ running_processes[i].output_queue = <<>>

\* C15: a drain does not wait for the child or for its reader thread: the
\* handler that reaches its drain returns, whether or not the child ever
\* writes or ends; a drain of an empty queue leaves output_lines as it was,
\* and every drain leaves the queue empty.
C15_DrainReturns ==
    /\ [][ \A i \in 1..Len(running_processes), j \in 1..Len(running_processes') :
              LET data == running_processes[i]
                  after == running_processes'[j]
              IN  (data.process.id = after.process.id /\ DrainStepOf(data)) =>
                      /\ after.output_queue = <<>>
                      /\ data.output_queue = <<>> =>
                             after.output_lines = data.output_lines
        ]_vars
    /\ (hpc.at \in {"run_sleep", "input_sleep"}) ~> (hpc.at = "done")

\* run_command has returned from its drain with nothing written yet, the
\* child running and its reader thread reading
C15_Witness ==
    /\ hpc.at = "done"
    /\ ret = "Success: command started"
    /\ pushed = 0
    /\ \E i \in 1..Len(running_processes) :
           /\ running_processes[i].process.exit = None
           /\ running_processes[i].output_lines = <<>>
           /\ threads[running_processes[i].process.id].alive
           /\ ~threads[running_processes[i].process.id].out_closed

\* a call of send_input_to_process, up to its sleep or to its early return
InputCall ==
    /\ hpc.at = "idle"
    /\ \/ hpc'.at = "input_sleep"
       \/ /\ hpc'.at = "done"
          /\ ret' \in {"Error: 'input_data' is required", "Error: process not found",
                       "Error: process has already terminated", "Error sending input"}

\* the call was given its input and found a record
InputResolved ==
    ret' \notin {"Error: 'input_data' is required", "Error: process not found"}

\* C16: send_input_to_process on a record whose child has ended returns the
\* "already terminated" error, writes nothing to the child's stdin and leaves
\* the record's expecting_input (and its output) as it was; it returns that
\* error for no other record.
C16_TerminatedInput ==
    [][ InputCall =>
          /\ Len(running_processes') = Len(running_processes)
          /\ \A i \in 1..Len(running_processes) :
                LET data == running_processes[i]
                    after == running_processes'[i]
                IN  /\ (InputResolved /\ data.process.exit # None) =>
                           /\ hpc'.at = "done"
                           /\ ret' = "Error: process has already terminated"
                           /\ io' = {}
                           /\ after.expecting_input = data.expecting_input
                           /\ after.output_lines = data.output_lines
                    /\ ret' = "Error: process has already terminated" =>
                           data.process.exit # None
      ]_vars

\* input was sent to a record that was expecting it after its child had
\* ended: the error is returned and the record is still expecting input
C16_Witness ==
    /\ hpc.at = "done"
    /\ ret = "Error: process has already terminated"
    /\ io = {}
    /\ \E i \in 1..Len(running_processes) :
           /\ running_processes[i].expecting_input
           /\ running_processes[i].process.exit # None

(***************************************************************************)
(* Properties of the resolution of "pid_or_cid" (SpecFind).                *)
(***************************************************************************)
Waiting(table) == {i \in 1..Len(table) : table[i].expecting_input}

OnlyWaiting(table) ==
    IF Cardinality(Waiting(table)) = 1
    THEN table[CHOOSE i \in Waiting(table) : TRUE].pid
    ELSE 0

WithPidText(table, id) == {i \in 1..Len(table) : PidText(table[i].pid) = id}

WithCid(table, id) == {i \in 1..Len(table) : table[i].cid = id}

Given(id) == id # NoText /\ id # <<>>

\* the resolution as the claim states it
ClaimedFind(table, id) ==
    IF Given(id) /\ WithPidText(table, id) # {}
    THEN table[CHOOSE i \in WithPidText(table, id) : TRUE].pid
    ELSE IF Given(id) /\ WithCid(table, id) # {}
    THEN table[CHOOSE i \in WithCid(table, id) : \A j \in WithCid(table, id) : i <= j].pid
    ELSE OnlyWaiting(table)

\* the resolution with the default of the third step limited to a table of
\* one process
SoleFind(table, id) ==
    IF ~Given(id) THEN OnlyWaiting(table)
    ELSE IF WithPidText(table, id) # {} \/ WithCid(table, id) # {}
    THEN ClaimedFind(table, id)
    ELSE IF Len(table) = 1 THEN OnlyWaiting(table)
    ELSE 0

KillStep == pc = "dispatch" /\ pc' = "handler" /\ CurrentName = "kill_process"

InputStep ==
    pc = "dispatch" /\ pc' = "handler" /\ CurrentName = "send_input_to_process"

AskedId == ArgGet(CurrentArgs, "pid_or_cid", NoText)

NotFound == "Error: process not found"

\* the step changes no record but that of pid target (none when it is 0)
OnlyTouches(target) ==
    /\ RecPids(running_processes') \subseteq RecPids(running_processes)
    /\ \A i \in 1..Len(running_processes) :
           running_processes[i].pid # target =>
               \E j \in 1..Len(running_processes') :
                   running_processes'[j] = running_processes[i]

\* C11 (as stated): kill_process resolves its identifier as
\* send_input_to_process does: by pid, else by correlation id, else to the
\* only process waiting for input, and reports not found otherwise.
C11_SameResolution ==
    [][ KillStep =>
            /\ (ret' = NotFound) = (ClaimedFind(running_processes, AskedId) = 0)
            /\ OnlyTouches(ClaimedFind(running_processes, AskedId))
      ]_vars

\* C11 (amended): an identifier resolves to the record with that pid, else
\* to the first record with that correlation id, else to the only tracked
\* process if it is waiting for input; no identifier resolves to the only
\* process waiting for input; kill_process acts on the record so resolved
\* and on no other, send_input_to_process on that record or, when there is
\* none, on the only process waiting for input; each reports not found when
\* it has no record to act on.
C11_Resolution ==
    [][ /\ KillStep =>
               /\ (ret' = NotFound) = (SoleFind(running_processes, AskedId) = 0)
               /\ OnlyTouches(SoleFind(running_processes, AskedId))
               /\ SoleFind(running_processes, AskedId) # 0 =>
                      SoleFind(running_processes, AskedId) \notin RecPids(running_processes')
        /\ InputStep =>
               /\ (ret' = NotFound) = (ClaimedFind(running_processes, AskedId) = 0)
               /\ OnlyTouches(ClaimedFind(running_processes, AskedId))
               /\ hpc'.at = "input_sleep" =>
                      hpc'.pid = ClaimedFind(running_processes, AskedId)
      ]_vars

\* kill_process was given an identifier that is no pid and no correlation
\* id while one of two processes waits for input: it reports not found
C11_Witness ==
    /\ pc = "handler"
    /\ CurrentName = "kill_process"
    /\ AskedId = <<"z">>
    /\ ret = NotFound
    /\ Len(running_processes) = 2
    /\ Cardinality(Waiting(running_processes)) = 1

(***************************************************************************)
(* Properties of the report of the refresh (SpecLife).                     *)
(***************************************************************************)
\* C12: the refresh has one line for each record, in the order of the
\* table.  A child that had ended when the refresh was called is reported
\* completed, with the status it ended with; a child that is alive when the
\* refresh polls it is reported running (or waiting for input), without an
\* exit code; a child that ends while the refresh runs is reported completed
\* with the status it ended with, and its record is kept.
C12_ReportedStatus ==
    [][ RefreshStep =>
            /\ Len(report') = Len(running_processes)
            /\ \A i \in 1..Len(running_processes) :
                   LET data == running_processes[i]
                       line == report'[i]
                       kept == {j \in 1..Len(running_processes') :
                                   running_processes'[j].process.id = data.process.id}
                   IN  /\ line.id = data.process.id
                       /\ line.pid = data.pid
                       /\ data.process.exit # None =>
                              /\ line.state = "completed"
                              /\ line.exit_code = data.process.exit
                       /\ data.process.exit = None =>
                              /\ kept # {}
                              /\ \A j \in kept :
                                     LET exit == running_processes'[j].process.exit
                                     IN  IF exit = None
                                         THEN /\ line.state \in {"running", "waiting"}
                                              /\ line.exit_code = None
                                         ELSE /\ line.state = "completed"
                                              /\ line.exit_code = exit
      ]_vars

\* a child that ended with status 0 is reported completed with exit code 0
\* by a refresh later than the one that first saw it ended
C12_Witness ==
    /\ hpc.at = "refreshed"
    /\ \E i \in 1..Len(report), j \in 1..Len(running_processes) :
           /\ report[i].state = "completed"
           /\ report[i].exit_code = 0
           /\ running_processes[j].process.id = report[i].id
           /\ running_processes[j].completion_time # None
           /\ running_processes[j].completion_time < now

(***************************************************************************)
(* Properties of the registration of a child (SpecFind).                   *)
(***************************************************************************)
\* the correlation id that accompanies the current action, NoText for none
ActionCid ==
    IF "cid" \in DOMAIN actions[idx] THEN actions[idx].cid ELSE NoText

\* C13 (as stated): when run_command is dispatched for an action that is
\* accompanied by a correlation id and has started its child, the table has
\* one record of the child's pid, with that correlation id, not completed,
\* not expecting input, without output, and the correlation id resolves to
\* that record.
C13_RegisteredWithCid ==
    (/\ pc = "handler"
     /\ CurrentName = "run_command"
     /\ ActionCid # NoText
     /\ hpc.at = "run_sleep") =>
        /\ Cardinality({i \in 1..Len(running_processes) :
                           running_processes[i].pid = hpc.pid}) = 1
        /\ LET data == GetRec(running_processes, hpc.pid)
           IN  /\ data.cid = ActionCid
               /\ ~data.completed
               /\ ~data.expecting_input
               /\ data.output_lines = <<>>
        /\ find_process_by_pid_or_cid(running_processes, ActionCid) = hpc.pid

(***************************************************************************)
(* Properties of the shutdown (SpecExit).                                  *)
(***************************************************************************)
\* C14: however the control loop is left (quit, interrupt, error), when the
\* program has ended cleanup_running_processes has gone through every
\* record of the table, whatever happened to the records before it, and
\* each tracked child has ended or has a warning or an error printed for it.
C14_ShutdownOnExit ==
    pc = "exited" =>
        /\ Len(report) = Len(running_processes)
        /\ \A i \in 1..Len(running_processes) :
              /\ report[i].id = running_processes[i].process.id
              /\ \/ running_processes[i].process.exit # None
                 \/ report[i].state \in {"warning", "error"}

\* the last cleanup could not signal the first child and ended the second
C14_Witness ==
    /\ pc = "exited"
    /\ Len(running_processes) = 2
    /\ report[1].state = "error"
    /\ running_processes[1].process.exit = None
    /\ running_processes[2].process.exit = TermCode
    /\ <<"signal", running_processes[2].process.id, <<"TERM">>>> \in io

(***************************************************************************)
(* Properties of normalize_action_object (SpecNorm).                       *)
(***************************************************************************)
GivenArgs(action_obj) == IF action_obj.args_is_dict THEN action_obj.args ELSE EmptyArgs

\* the accepted keys of canonical_param that args holds, by their place in
\* the list of the mapping
PresentVariants(args, variants) == {k \in 1..Len(variants) : variants[k] \in DOMAIN args}

FirstPresent(args, variants) ==
    variants[CHOOSE k \in PresentVariants(args, variants) :
                 \A m \in PresentVariants(args, variants) : k <= m]

\* C20: an alias is replaced by its canonical name; a canonical parameter
\* that args lacks gets the value of the first accepted key args holds, if
\* any; every key args came with keeps its value, a canonical key included.
C20_AliasesAndSynonyms ==
    pc = "normalized" =>
        LET given == actions[1]
            args == GivenArgs(given)
            normalized == invoked[1]
            param_map == ParameterMappings(normalized.action)
        IN  /\ given.action \in DOMAIN ActionMap =>
                   normalized.action = ActionMap[given.action]
            /\ \A k \in DOMAIN args :
                   k \in DOMAIN normalized.args /\ normalized.args[k] = args[k]
            /\ \A n \in 1..Len(param_map) :
                   LET canonical_param == param_map[n][1]
                       variants == param_map[n][2]
                   IN  canonical_param \notin DOMAIN args =>
                           IF PresentVariants(args, variants) = {}
                           THEN canonical_param \notin DOMAIN normalized.args
                           ELSE normalized.args[canonical_param] =
                                    args[FirstPresent(args, variants)]

\* "mkdir" with "folder": "x" has become create_folder with "path": "x",
\* "folder" still there
C20_Witness ==
    /\ pc = "normalized"
    /\ actions[1].action = "mkdir"
    /\ actions[1].args_is_dict
    /\ DOMAIN actions[1].args = {"folder"}
    /\ invoked[1].action = "create_folder"
    /\ invoked[1].args = [path |-> <<"x">>, folder |-> <<"x">>]

(***************************************************************************)
(* Properties of extract_json_from_response and of the loop's use of it    *)
(* (SpecExtract).                                                          *)
(***************************************************************************)
\* C17: whatever the response, extraction gives a list of actions or nothing
\* and never raises to the loop; when it gives no action the turn is
\* conversational: the loop is back at its top, no handler has been invoked,
\* and the process table and the working directory are as they were.
C17_ExtractionTotal ==
    [][pc = "extract" =>
           LET extracted == extract_json_from_response(llm_response_text)
           IN  /\ ~extracted.raised
               /\ extracted.none => extracted.actions = <<>>
               /\ extracted.actions = <<>> =>
                      /\ pc' = "top"
                      /\ invoked' = invoked
                      /\ invoked' = <<>>
                      /\ running_processes' = running_processes
                      /\ cwd' = cwd
                      /\ hpc' = hpc]_vars

\* a response cut off inside its second object has been handled, in a turn
\* after one that changed the working directory
C17_Witness ==
    /\ pc = "top"
    /\ cwd = <<"f">>
    /\ llm_response_text \in
           CutOff(Fenced(ArrayText(<<[name |-> <<"c","d">>, value |-> <<"f">>,
                                      action_first |-> TRUE],
                                     [name |-> <<"c","d">>, value |-> <<"f">>,
                                      action_first |-> TRUE]>>)))
    /\ Len(llm_response_text) > 40
    /\ extract_json_from_response(llm_response_text).none

\* the canonical operation name of the action object obj
ExpectedName(obj) ==
    IF Join(obj.name) \in DOMAIN ActionMap THEN ActionMap[Join(obj.name)]
    ELSE Join(obj.name)

\* list is the actions of the objects objs, one for one and in their order
ExtractedInOrder(list, objs) ==
    /\ Len(list) = Len(objs)
    /\ \A n \in 1..Len(objs) :
           /\ list[n].action = ExpectedName(objs[n])
           /\ list[n].args.dir = objs[n].value

\* C18: a fenced JSON array of N action objects (N >= 1, each a dict with a
\* string operation name) extracts to exactly N actions, in the order of the
\* array.
C18_ArrayOfN ==
    [][\A objs \in ObjectLists :
           (pc = "extract" /\ llm_response_text = Fenced(ArrayText(objs))) =>
               /\ pc' = "dispatch"
               /\ ExtractedInOrder(actions', objs)]_vars

\* C19: two adjacent top-level JSON action objects with no enclosing array,
\* fenced or unfenced as the whole response, extract to exactly 2 actions, in
\* their textual order.
C19_AdjacentPair ==
    [][\A objs \in ObjectPairs :
           (/\ pc = "extract"
            /\ llm_response_text \in {Fenced(AdjacentText(objs)), AdjacentText(objs)}) =>
               /\ pc' = "dispatch"
               /\ Len(actions') = 2
               /\ ExtractedInOrder(actions', objs)]_vars

(***************************************************************************)
(* Properties of normalize_action_object on run_command (SpecTwice).       *)
(***************************************************************************)
\* the command text of a candidate: what "command_string" holds, or else
\* the first accepted key of the mapping of run_command
CommandText(action_obj) ==
    LET args == GivenArgs(action_obj)
        variants == ParameterMappings("run_command")[1][2]
    IN  IF PresentVariants(args, variants) = {} THEN <<>>
        ELSE args[FirstPresent(args, variants)]

CanonicalName(action) ==
    IF action \in DOMAIN ActionMap THEN ActionMap[action] ELSE action

\* C21: a candidate whose canonical operation is run_command, named directly
\* or by an alias, and whose command text begins with "cd " normalizes to
\* change_directory with the rest of the command text as its path.
C21_CdRewrite ==
    pc = "normalized" =>
        LET given == actions[1]
            text == CommandText(given)
        IN  (/\ CanonicalName(given.action) = "run_command"
             /\ StartsWith(text, <<"c","d"," ">>)) =>
                /\ invoked[1].action = "change_directory"
                /\ "path" \in DOMAIN invoked[1].args
                /\ invoked[1].args["path"] = Strip(SubSeq(text, 4, Len(text)))

\* C29: the normalizer applied to an action it returned gives an action with
\* the same operation name and the same args.
C29_Idempotent ==
    pc = "renormalized" =>
        /\ invoked[2].action = invoked[1].action
        /\ invoked[2].args = invoked[1].args

(***************************************************************************)
(* What reader threads and the control thread share (SpecSup).             *)
(***************************************************************************)
\* a step of a reader thread: a chunk queued, or the thread's end
ReaderStep ==
    \/ pushed' # pushed
    \/ \E id \in 1..Len(threads) : threads[id].alive /\ ~threads'[id].alive

\* the records without their queues
WithoutQueue(table) ==
    [i \in 1..Len(table) |-> [table[i] EXCEPT !.output_queue = <<>>]]

\* a reader step changes no key and no field of a record but the queue
ReaderTouchesQueueOnly ==
    [][ReaderStep => WithoutQueue(running_processes') = WithoutQueue(running_processes)]_vars

\* C22: the queue is the only mutable state that both a reader thread and the
\* control thread access: a reader step changes nothing of the table of
\* records but a queue, and nothing else that a running reader reads is
\* changed by the control thread.
C22_OnlyQueueShared ==
    [][/\ ReaderStep => WithoutQueue(running_processes') = WithoutQueue(running_processes)
       /\ ~ReaderStep =>
              \A id \in 1..Len(threads) :
                  threads[id].alive =>
                      /\ threads'[id].out_closed = threads[id].out_closed
                      /\ threads'[id].err_closed = threads[id].err_closed]_vars

(***************************************************************************)
(* Properties of the supervisor with its readers (SpecSup).                *)
(***************************************************************************)
\* the record of the child with Popen identity id, before and after a step
TrackedId(table, id) == \E i \in 1..Len(table) : table[i].process.id = id

RecOfId(table, id) == table[CHOOSE i \in 1..Len(table) : table[i].process.id = id]

\* the chunk "? " is in the queue as a stdout event
StdoutPromptQueued(queue) ==
    \E i \in 1..Len(queue) : queue[i] = <<"stdout", <<"?", " ">>>>

\* the step drains the record data: the drain that ends run_command or
\* send_input_to_process for its pid, or the refresh
DrainStep(data) ==
    \/ hpc.at \in {"run_sleep", "input_sleep"} /\ hpc.pid = data.pid /\ hpc'.at = "done"
    \/ hpc.at = "idle" /\ hpc'.at = "refreshed"

\* C23: expecting_input of a record becomes true only in a drain that takes a
\* stdout line with a prompt keyword from the queue, and becomes false only
\* in a send_input_to_process that wrote to the child's stdin; no other step
\* changes it.
C23_ExpectingInputFrame ==
    [][\A id \in 1..MaxSpawnsSup :
           (TrackedId(running_processes, id) /\ TrackedId(running_processes', id)) =>
               LET old == RecOfId(running_processes, id)
                   new == RecOfId(running_processes', id)
               IN  /\ (~old.expecting_input /\ new.expecting_input) =>
                          /\ DrainStep(old)
                          /\ StdoutPromptQueued(old.output_queue)
                   /\ (old.expecting_input /\ ~new.expecting_input) =>
                          /\ hpc.at = "idle" /\ hpc'.at = "input_sleep"
                          /\ \E w \in io' : w[1] = "stdin" /\ w[2] = id]_vars

\* a record whose child has been seen to end, whose drained stderr line "? "
\* left the flag false, after a refresh
C23_Witness ==
    /\ hpc.at = "refreshed"
    /\ \E i \in 1..Len(running_processes) :
           /\ running_processes[i].completed
           /\ ~running_processes[i].expecting_input
           /\ running_processes[i].output_lines = <<Tagged("stderr", <<"?", " ">>)>>

(***************************************************************************)
(* Properties of the dispatch of run_command with a "cd" text (SpecCd).     *)
(***************************************************************************)
\* the dispatcher hands the action at idx, a run_command, to its handler
RunCommandDispatched ==
    /\ pc = "dispatch" /\ idx <= Len(actions)
    /\ actions[idx].action = "run_command"
    /\ "command_string" \in DOMAIN actions[idx].args
    /\ pc' = "handler"

\* no child is started, by Popen or by os.system, and no record is added
NothingSpawned ==
    /\ spawned' = spawned
    /\ fg' = fg
    /\ running_processes' = running_processes
    /\ threads' = threads

\* C24 as stated: a dispatched run_command whose command text begins with
\* "cd " starts no child and adds no record.
C24_CdNeverSpawns ==
    [][(/\ RunCommandDispatched
        /\ StartsWith(actions[idx].args["command_string"], <<"c", "d", " ">>)) =>
           NothingSpawned]_vars

\* C24: a dispatched run_command whose command text, without the white space
\* around it, begins with "cd " starts no child and adds no record: the
\* handler has the working directory changed to the rest of the text, as
\* handle_change_directory does with it, and returns.
C24_StrippedCdNeverSpawns ==
    [][(/\ RunCommandDispatched
        /\ StartsWith(Strip(actions[idx].args["command_string"]), <<"c", "d", " ">>)) =>
           LET text == Strip(actions[idx].args["command_string"])
               target == Strip(SubSeq(text, 4, Len(text)))
           IN  /\ NothingSpawned
               /\ hpc'.at = "done"
               /\ cwd' = IF target \in ExistingDirs THEN target ELSE cwd]_vars

\* the handler of run_command, reached by the alias "exec" with the text
\* " cd f ", has changed the working directory and started nothing
C24_Witness ==
    /\ pc = "handler" /\ hpc.at = "done"
    /\ actions = <<[action |-> "run_command",
                    args |-> [command_string |-> <<" ", "c", "d", " ", "f", " ">>,
                              interactive |-> FALSE],
                    args_is_dict |-> TRUE]>>
    /\ cwd = <<"f">>
    /\ spawned = 0 /\ running_processes = <<>> /\ fg = "none"

\* the reader thread of child id runs, and the child's record has left the
\* table: the child has ended and its streams are at their end
ReaderLeftBehind(id) ==
    /\ id <= Len(threads)
    /\ threads[id].alive
    /\ ~TrackedId(running_processes, id)

ReaderEnded(id) == id <= Len(threads) /\ ~threads[id].alive

\* C25: every reader thread ends: once its child has ended and the record is
\* gone from the table, reaped by the refresh or removed by kill_process,
\* the reader ends too.
C25_ReadersEnd ==
    \A id \in 1..MaxSpawnsSup : ReaderLeftBehind(id) ~> ReaderEnded(id)

(***************************************************************************)
(* Properties of identifiers that name no process (SpecFind).              *)
(***************************************************************************)
\* the dispatcher hands the action at idx, named name, to its handler
HandlerEntered(name) ==
    /\ pc = "dispatch" /\ idx <= Len(actions)
    /\ actions[idx].action = name
    /\ pc' = "handler"

GivenIdentifier == ArgGet(CurrentArgs, "pid_or_cid", NoText)

\* the identifier is the pid or the correlation id of a record of table
NamesTracked(table, pid_or_cid) ==
    \E i \in 1..Len(table) :
        \/ ParseInt(pid_or_cid) = table[i].pid
        \/ table[i].cid = pid_or_cid

\* kill_process finds no process for the identifier: none is given and
\* there is not exactly one process waiting for input, or the one given
\* names no record and the table is not one process waiting for input
KillResolvesNone(table, pid_or_cid) ==
    IF pid_or_cid \in {NoText, <<>>}
    THEN Cardinality(WaitingPids(table)) # 1
    ELSE /\ ~NamesTracked(table, pid_or_cid)
         /\ ~(Len(table) = 1 /\ table[1].expecting_input)

\* send_input_to_process finds none either: nor is there exactly one
\* process waiting for input
SendResolvesNone(table, pid_or_cid) ==
    /\ KillResolvesNone(table, pid_or_cid)
    /\ Cardinality(WaitingPids(table)) # 1

\* the handler has returned "not found" and has done nothing
NotFoundAndUntouched ==
    /\ hpc'.at = "done"
    /\ ret' = "Error: process not found"
    /\ io' = {}
    /\ running_processes' = running_processes
    /\ threads' = threads

\* C26: when the identifier given to send_input_to_process or to
\* kill_process resolves to no process, the handler returns a not-found
\* error, writes to no stdin, sends no signal, and leaves the table and
\* every record as they were.
C26_NotFound ==
    [][/\ (/\ HandlerEntered("send_input_to_process")
           /\ "input_data" \in DOMAIN CurrentArgs
           /\ SendResolvesNone(running_processes, GivenIdentifier)) => NotFoundAndUntouched
       /\ (/\ HandlerEntered("kill_process")
           /\ KillResolvesNone(running_processes, GivenIdentifier)) => NotFoundAndUntouched]_vars

\* send_input_to_process with the identifier "z" has returned not found, with
\* two processes tracked
C26_Witness ==
    /\ pc = "handler" /\ hpc.at = "done"
    /\ ret = "Error: process not found"
    /\ actions[idx].action = "send_input_to_process"
    /\ actions[idx].args["pid_or_cid"] = <<"z">>
    /\ Len(running_processes) = 2
    /\ io = {}

C27_PidKeysOneRecord ==
    [][\A i \in 1..Len(running_processes) :
           LET data == running_processes[i]
           IN  HasPid(running_processes', data.pid) =>
                   GetRec(running_processes', data.pid).process.id = data.process.id]_vars

\* C30: the refresh removes a record only if an earlier poll had already
\* seen its child ended: a record whose child runs is never removed by the
\* refresh, whatever its age, its lines, its queue and its expecting_input,
\* and a record is never removed by the call that is the first to see its
\* child ended.
C30_ReapsOnlySeenEnded ==
    [][RefreshStep =>
           \A i \in 1..Len(running_processes) :
               LET data == running_processes[i]
               IN  ~TrackedId(running_processes', data.process.id) =>
                       /\ data.process.exit # None
                       /\ data.process.returncode # None
                       /\ data.completion_time # None]_vars

\* a refresh more than 60 s after the start of a record is the first call to
\* see its child ended, and the record, with the lines it has drained, is
\* still in the table
C30_Witness ==
    /\ hpc.at = "refreshed"
    /\ now > 1 + GracePeriod
    /\ \E i \in 1..Len(report) : report[i].state = "completed"
    /\ \E i \in 1..Len(running_processes) :
           /\ running_processes[i].process.id = 1
           /\ running_processes[i].completed
           /\ running_processes[i].completion_time = now
           /\ running_processes[i].expecting_input
           /\ running_processes[i].output_lines # <<>>

=============================================================================
